---- MODULE Spec2Model ----
(***************************************************************************)
(* hailo-back: the analysis job orchestrator of server.js                  *)
(* (POST /api/analyze/from-file, GET /api/analyze/:jobId and the           *)
(* background pipeline runMetaAnalysisJob), the JSON job store of          *)
(* store/job_store.js and the upload analysis route.                       *)
(*                                                                         *)
(* Node runs every handler and every stretch of an async function between  *)
(* two awaits to completion, so each action below is one such stretch.     *)
(***************************************************************************)
EXTENDS Integers, Sequences, FiniteSets, TLC

VARIABLES
    store,               \* store.jobs of analysis_jobs.json, keyed by jobId (Null: no record)
    activeAnalysisJobs,  \* the in-memory Set of identifiers being executed
    immediates,          \* callbacks queued by setImmediate, oldest first
    awaiting,            \* per identifier: executions suspended at `await loadMetaPayload`
    escaped,             \* identifiers whose background task rejected (unhandled)
    resp,                \* the HTTP response sent by the last step (NoResp after a background step)
    written,             \* status transitions written to the store by the last step
    firstSubmit,         \* per identifier: the last accepted submission without force
    faults,              \* whether the store file may fail to be written in this run
    upload,              \* the upload analysis request being served, and where it is suspended
    shots,               \* shots.json: per uploaded file the stored shot (Null: none)
    clip,                \* the frames parseMeta returned for the payload under analysis
    report,              \* what detectEvents and calculateMetrics returned for clip (Null: not run)
    tools,               \* ffmpegAvailability and ffprobeAvailability (Null: not probed yet)
    proc,                \* the child process the upload pipeline is waiting for (Null: none)
    disk,                \* UPLOAD_DIR/.converted: per cache key the state of the output file
    prep,                \* where prepareVideoForAnalysis or the analyzer is suspended
    crashed,             \* the Node process was ended by an uncaught exception
    payload,             \* a meta payload as read: its frame rate and its list of frames
    parsed               \* what parseMeta returned for payload (Null: not run)

vars == <<store, activeAnalysisJobs, immediates, awaiting, escaped, resp, written,
          firstSubmit, faults, upload, shots, clip, report, tools, proc, disk, prep,
          crashed, payload, parsed>>

\* what the upload route owns
uploadVars == <<upload, shots>>

\* what the metrics engine works on
metricVars == <<clip, report, payload, parsed>>

\* the external tools and their files
toolVars == <<tools, proc, disk, prep, crashed>>

(***************************************************************************)
(* Bounds and input sets                                                   *)
(***************************************************************************)
NumJobs == 2

\* longest queue of setImmediate callbacks explored
MaxImmediates == 4

\* JavaScript null / undefined, and a present value
Null == <<>>
Some(v) == <<v>>

\* An identifier is abstracted to which name it is and whether the string
\* contains '/' or '\'.
JobIds == [n : 1..NumJobs, sep : {FALSE}]

\* A file name is abstracted to its directory part, its base name without
\* extension, and its extension.
File(dir, stem, ext) == [dir |-> dir, stem |-> stem, ext |-> ext]

\* The request bodies submitted to POST /api/analyze/from-file: for every
\* identifier a bare jobId, a jobId with a .MOV that is not in UPLOAD_DIR,
\* a bare filename, an unsupported extension and a path leaving UPLOAD_DIR;
\* an empty body; identifiers (given or derived) holding a separator.
BadId == [n |-> 1, sep |-> TRUE]
Body(jobId, filename) == [jobId |-> jobId, filename |-> filename]
Bodies ==
    UNION {{Body(Some(j), Null),
            Body(Some(j), Some(File("", j, ".MOV"))),
            Body(Null, Some(File("", j, ".mp4"))),
            Body(Some(j), Some(File("", j, ".txt"))),
            Body(Some(j), Some(File("..", j, ".mp4")))} : j \in JobIds}
    \cup {Body(Null, Null),
          Body(Some(BadId), Null),
          Body(Null, Some(File("", BadId, ".mp4")))}

\* the files present in UPLOAD_DIR: every <n>.mp4, no .MOV
UploadExists(filename) == filename.dir = "" /\ filename.ext = ".mp4"

\* outcome of a write of the store file: TRUE when fs.writeFileSync returns
WriteOutcomes == IF faults THEN BOOLEAN ELSE {TRUE}

\* what the pipeline finds as meta payload, and (under faults) an exception
\* raised by the parsing and analysis code
MetaKinds == {"none", "noframes", "swing", "still"} \cup (IF faults THEN {"throws"} ELSE {})

TS == Some("ts")   \* new Date().toISOString()

(***************************************************************************)
(* server.js: result defaults                                              *)
(***************************************************************************)
EMPTY_EVENTS == [addressMs |-> Null, topMs |-> Null, impactMs |-> Null, finishMs |-> Null]

\* (variant: a default swing plane that claims some confidence)
EMPTY_METRICS_Confident ==
    [swingPlane |-> [label |-> "neutral", confidence |-> 50],
     tempo |-> [backswingMs |-> Null, downswingMs |-> Null, ratio |-> Null],
     impactStability |-> [label |-> "unstable", score |-> 0]]

EMPTY_METRICS ==
    [swingPlane |-> [label |-> "neutral", confidence |-> 0],
     tempo |-> [backswingMs |-> Null, downswingMs |-> Null, ratio |-> Null],
     impactStability |-> [label |-> "unstable", score |-> 0]]

\* buildAnalysisResult: every missing part is filled with the defaults.
\* The argument carries optional events, metrics and summary.
buildAnalysisResult(arg) ==
    [events  |-> IF arg.events = Null THEN EMPTY_EVENTS ELSE arg.events[1],
     metrics |-> IF arg.metrics = Null THEN EMPTY_METRICS ELSE arg.metrics[1],
     summary |-> IF arg.summary = Null THEN <<>> ELSE arg.summary[1]]

\* a text is the sequence of its pieces, '' the empty sequence
OnlySummary(s) == [events |-> Null, metrics |-> Null, summary |-> Some(<<s>>)]

(***************************************************************************)
(* store/job_store.js                                                      *)
(***************************************************************************)
\* The list store.jobs holds at most one record per jobId (upsertJob
\* replaces the record it finds), so it is kept as a map from jobId.

\* getJob: Null when absent
getJob(jobs, jobId) == jobs[jobId]

\* upsertJob: replace in place or append
upsertJob(jobs, job) == [jobs EXCEPT ![job.jobId] = Some(job)]

\* A patch is a partial record: the fields it sets.
ApplyPatch(job, patch) ==
    [f \in DOMAIN job |-> IF f \in DOMAIN patch THEN patch[f] ELSE job[f]]

\* updateJob: merge the patch into the stored record; no record, no write
updateJob(jobs, jobId, patch) ==
    IF jobs[jobId] = Null THEN jobs
    ELSE [jobs EXCEPT ![jobId] = Some(ApplyPatch(jobs[jobId][1], patch))]

StatusOf(jobs, jobId) ==
    LET j == getJob(jobs, jobId) IN IF j = Null THEN "none" ELSE j[1].status

\* the status transition of jobId made by the write that turned the
\* store `before` into `after`
Trans(before, after, jobId) ==
    [jobId |-> jobId, from |-> StatusOf(before, jobId), to |-> StatusOf(after, jobId)]

NoResp == [kind |-> "none"]

\* the uploaded clips: one .mp4 and one .mov, named by their extension
UploadExts == {".mp4", ".mov"}

\* no upload analysis request in progress
Idle == [pc |-> "idle", ext |-> ".mp4", force |-> FALSE, prepared |-> Null, ran |-> <<>>]

\* no tool probed yet, nothing converted yet, no tool running
NotProbed == [ffmpeg |-> Null, ffprobe |-> Null]
CacheKeys == {"first", "second"}
EmptyDisk == [k \in CacheKeys |-> "absent"]
Resting ==
    [pc |-> "rest", key |-> "first", found |-> FALSE, ran |-> <<>>, codec |-> Null,
     error |-> Null]

Init ==
    /\ store = [j \in JobIds |-> Null]
    /\ activeAnalysisJobs = {}
    /\ immediates = <<>>
    /\ awaiting = [j \in JobIds |-> 0]
    /\ escaped = {}
    /\ resp = NoResp
    /\ written = <<>>
    /\ firstSubmit = [j \in JobIds |-> Null]
    /\ faults = FALSE
    /\ upload = Idle
    /\ shots = [e \in UploadExts |-> Null]
    /\ clip = <<>>
    /\ report = Null
    /\ tools = NotProbed
    /\ proc = Null
    /\ disk = EmptyDisk
    /\ prep = Resting
    /\ crashed = FALSE
    /\ payload = [fps |-> [type |-> "undefined", value |-> 0], frames |-> <<>>]
    /\ parsed = Null

(***************************************************************************)
(* server.js: POST /api/analyze/from-file                                  *)
(***************************************************************************)
ToLowerCase(s) ==
    CASE s = ".MOV" -> ".mov"
      [] s = "Analysis" -> "analysis"
      [] s = "Cannot" -> "cannot"
      [] s = "Invalid" -> "invalid"
      [] OTHER -> s

isSupportedVideoExt(filename) == ToLowerCase(filename.ext) \in {".mp4", ".mov"}

\* resolveUploadPath: Null when the target is not inside UPLOAD_DIR
resolveUploadPath(filename) == IF filename.dir = "" THEN Some(filename) ELSE Null

\* providedJobId || basename(filename, extname(filename)) || null
DerivedJobId(providedJobId, filename) ==
    IF providedJobId # Null THEN providedJobId
    ELSE IF filename # Null THEN Some(filename[1].stem)
    ELSE Null

\* filename || `${derivedJobId}.mp4`
TargetFilename(derivedJobId, filename) ==
    IF filename # Null THEN filename[1]
    ELSE [dir |-> "", stem |-> derivedJobId, ext |-> ".mp4"]

\* variant of the validation chain: the extension is not checked
ValidationError_AnyExtension(providedJobId, filename) ==
    LET derivedJobId == DerivedJobId(providedJobId, filename) IN
    IF derivedJobId = Null THEN Some("jobId is required")
    ELSE IF derivedJobId[1].sep THEN Some("Invalid jobId")
    ELSE IF resolveUploadPath(TargetFilename(derivedJobId[1], filename)) = Null
         THEN Some("Invalid file path")
    ELSE Null

\* the first message of the validation chain that applies, Null when the
\* request passes
ValidationError(providedJobId, filename) ==
    LET derivedJobId == DerivedJobId(providedJobId, filename) IN
    IF derivedJobId = Null THEN Some("jobId is required")
    ELSE IF derivedJobId[1].sep THEN Some("Invalid jobId")
    ELSE IF ~isSupportedVideoExt(TargetFilename(derivedJobId[1], filename))
         THEN Some("Only .mp4/.mov is supported")
    ELSE IF resolveUploadPath(TargetFilename(derivedJobId[1], filename)) = Null
         THEN Some("Invalid file path")
    ELSE Null

\* variants of the early returns: force restarts a running job; a running
\* job is not recognised without force; a done job is not recognised
ReturnsExisting_ForceRestarts(existing, force) ==
    existing # Null /\ ~force /\ existing[1].status \in {"pending", "running", "done"}

ReturnsExisting_RunningUnseen(existing, force) ==
    \/ existing # Null /\ ~force /\ existing[1].status \in {"pending", "done"}
    \/ existing # Null /\ existing[1].status = "running" /\ force

ReturnsExisting_DoneUnseen(existing, force) ==
    \/ existing # Null /\ ~force /\ existing[1].status \in {"pending", "running"}
    \/ existing # Null /\ existing[1].status = "running" /\ force

\* the two early returns that answer with the stored status
ReturnsExisting(existing, force) ==
    \/ existing # Null /\ ~force /\ existing[1].status \in {"pending", "running", "done"}
    \/ existing # Null /\ existing[1].status = "running" /\ force

\* variants of the record written on accept: created as running; the old
\* result kept; the old finishedAt kept
NewJob_Base(derivedJobId, targetFilename, existing) ==
    [jobId |-> derivedJobId,
     filename |-> targetFilename,
     status |-> "pending",
     createdAt |-> IF existing # Null /\ existing[1].createdAt # Null
                   THEN existing[1].createdAt ELSE TS,
     requestedAt |-> TS,
     startedAt |-> Null,
     finishedAt |-> Null,
     errorMessage |-> Null,
     result |-> Null]

NewJob_StartsRunning(derivedJobId, targetFilename, existing) ==
    [NewJob_Base(derivedJobId, targetFilename, existing) EXCEPT !.status = "running"]

NewJob_KeepsResult(derivedJobId, targetFilename, existing) ==
    [NewJob_Base(derivedJobId, targetFilename, existing) EXCEPT
        !.result = IF existing # Null THEN existing[1].result ELSE Null]

NewJob_KeepsFinishedAt(derivedJobId, targetFilename, existing) ==
    [NewJob_Base(derivedJobId, targetFilename, existing) EXCEPT
        !.finishedAt = IF existing # Null THEN existing[1].finishedAt ELSE Null]

\* the record written by upsertJob on accept
NewJob(derivedJobId, targetFilename, existing) ==
    [jobId |-> derivedJobId,
     filename |-> targetFilename,
     status |-> "pending",
     createdAt |-> IF existing # Null /\ existing[1].createdAt # Null
                   THEN existing[1].createdAt ELSE TS,
     requestedAt |-> TS,
     startedAt |-> Null,
     finishedAt |-> Null,
     errorMessage |-> Null,
     result |-> Null]

\* variant of the patch written before the handler answers: the status is
\* left to the pipeline
AcceptPatch_StatusLater == [startedAt |-> TS]

\* the patch written after setImmediate, before the handler answers
AcceptPatch == [status |-> "running", startedAt |-> TS]

SubmitResp(code, jobId, status, force, prior, accepted, pair) ==
    [kind |-> "submit", code |-> code, jobId |-> jobId, status |-> status,
     force |-> force, prior |-> prior, accepted |-> accepted, pair |-> pair]

\* the earlier accepted submission without force this one is paired with,
\* with the number of pipeline executions the two have scheduled
PairWith(first, scheduledNow) ==
    IF first = Null THEN Null
    ELSE Some([status |-> first[1].status,
               runs |-> first[1].runs + (IF scheduledNow THEN 1 ELSE 0)])

AnalyzeFromFile(providedJobId, filename, force, w1, w2) ==
    LET err == ValidationError(providedJobId, filename)
        derivedJobId == DerivedJobId(providedJobId, filename)
    IN
    IF err # Null THEN
        /\ resp' = [kind |-> "submit", code |-> 400, message |-> err[1]]
        /\ written' = <<>>
        /\ UNCHANGED <<store, activeAnalysisJobs, immediates, awaiting, escaped,
                       firstSubmit, faults, uploadVars, metricVars, toolVars>>
    ELSE
        LET id == derivedJobId[1]
            targetFilename == TargetFilename(id, filename)
            existing == getJob(store, id)
            prior == StatusOf(store, id)
        IN
        IF ReturnsExisting(existing, force) THEN
            /\ resp' = SubmitResp(200, id, Some(existing[1].status), force,
                                  prior, FALSE,
                                  IF force THEN Null ELSE PairWith(firstSubmit[id], FALSE))
            /\ written' = <<>>
            /\ firstSubmit' = IF force THEN [firstSubmit EXCEPT ![id] = Null] ELSE firstSubmit
            /\ UNCHANGED <<store, activeAnalysisJobs, immediates, awaiting, escaped, faults, uploadVars, metricVars, toolVars>>
        ELSE IF ~w1 THEN
            \* saveStore throws inside upsertJob: Express answers 500
            /\ resp' = SubmitResp(500, id, Null, force, prior, FALSE, Null)
            /\ written' = <<>>
            /\ UNCHANGED <<store, activeAnalysisJobs, immediates, awaiting, escaped,
                           firstSubmit, faults, uploadVars, metricVars, toolVars>>
        ELSE
            LET job == NewJob(id, targetFilename, existing)
                store1 == upsertJob(store, job)
                store2 == updateJob(store1, id, AcceptPatch)
            IN
            /\ Len(immediates) < MaxImmediates
            /\ immediates' = Append(immediates, id)
            /\ store' = IF w2 THEN store2 ELSE store1
            /\ written' = IF w2 THEN <<Trans(store, store1, id), Trans(store1, store2, id)>>
                          ELSE <<Trans(store, store1, id)>>
            /\ resp' = IF w2
                       THEN SubmitResp(200, id, Some("running"), force, prior,
                                       TRUE,
                                       IF force THEN Null ELSE PairWith(firstSubmit[id], TRUE))
                       ELSE SubmitResp(500, id, Null, force, prior, TRUE, Null)
            /\ firstSubmit' = [firstSubmit EXCEPT ![id] =
                                  IF force THEN Null
                                  ELSE Some([status |-> IF w2 THEN "running" ELSE "error",
                                             runs |-> 1])]
            /\ UNCHANGED <<activeAnalysisJobs, awaiting, escaped, faults, uploadVars, metricVars, toolVars>>

(***************************************************************************)
(* analysis/track_utils.js, analysis/event_detector.js,                    *)
(* analysis/metrics_calculator.js                                          *)
(*                                                                         *)
(* Numbers.  A coordinate is counted in hundredths: 100 stands for 1.0, so *)
(* a normalized position lies in 0..100 and a position of p pixels is      *)
(* 100 * p.  Timestamps are whole milliseconds.  Confidence, score and the *)
(* tempo ratio are numbers with two decimals (toFixed(2)) and are counted  *)
(* in hundredths too.  Comparisons of square roots and quotients are made  *)
(* on the squares and cross products, which is what they compute over the  *)
(* reals; the rounding of IEEE doubles is left out.                        *)
(***************************************************************************)
Abs(n) == IF n < 0 THEN 0 - n ELSE n
Min2(a, b) == IF a < b THEN a ELSE b
Max2(a, b) == IF a > b THEN a ELSE b
Sq(n) == n * n

\* Math.round of the quotient a / b of two naturals, b > 0
RoundDiv(a, b) == (2 * a + b) \div (2 * b)

RECURSIVE Sum(_)
Sum(numbers) == IF numbers = <<>> THEN 0 ELSE Head(numbers) + Sum(Tail(numbers))

\* A parsed frame: its timestamp and, for the ball and for the clubhead,
\* the centre of the best detection bboxCenter(selectBestDetection(...))
\* gives (Null: no such detection in the frame).
Frame(t, club, ball) == [t |-> t, club |-> club, ball |-> ball]
Centre(x, y) == Some([x |-> x, y |-> y])
Point(t, x, y) == [t |-> t, x |-> x, y |-> y]

\* buildTrack(frames, predicate), kind being "club" or "ball"
buildTrack(frames, kind) ==
    LET with == SelectSeq(frames, LAMBDA f : f[kind] # Null) IN
    [i \in 1..Len(with) |-> Point(with[i].t, with[i][kind][1].x, with[i][kind][1].y)]

RECURSIVE MaxValue(_)
MaxValue(points) ==
    IF points = <<>> THEN 0
    ELSE Max2(Max2(Abs(Head(points).x), Abs(Head(points).y)), MaxValue(Tail(points)))

\* inferNormalized: 0 < max(|x|, |y|) <= 1.5
inferNormalized(points) == MaxValue(points) > 0 /\ MaxValue(points) <= 150

\* speed = dist / dt >= num / den, for dt > 0, on the squares
SpeedReaches(d2, dt, speedThreshold) ==
    d2 * Sq(speedThreshold.den) >= Sq(speedThreshold.num) * Sq(dt)

\* speed a > speed b, each given by its squared distance and its dt > 0
Faster(a, b) == a.d2 * Sq(b.dt) > b.d2 * Sq(a.dt)

\* detectImpactFromTrack, the loop from index i on; best is the fastest
\* point seen that reached no threshold
RECURSIVE ImpactScan(_, _, _, _, _)
ImpactScan(track, i, best, distanceThreshold, speedThreshold) ==
    IF i > Len(track) THEN
        IF best # Null /\ SpeedReaches(best[1].d2, best[1].dt, speedThreshold)
        THEN Some(best[1].point) ELSE Null
    ELSE
        LET prev == track[i - 1]
            curr == track[i]
            dt == curr.t - prev.t
            d2 == Sq(curr.x - prev.x) + Sq(curr.y - prev.y)
            cand == [point |-> curr, d2 |-> d2, dt |-> dt]
        IN
        IF dt <= 0 THEN ImpactScan(track, i + 1, best, distanceThreshold, speedThreshold)
        ELSE IF d2 >= Sq(distanceThreshold) \/ SpeedReaches(d2, dt, speedThreshold)
        THEN Some(curr)
        ELSE IF best = Null \/ Faster(cand, best[1])
        THEN ImpactScan(track, i + 1, Some(cand), distanceThreshold, speedThreshold)
        ELSE ImpactScan(track, i + 1, best, distanceThreshold, speedThreshold)

detectImpactFromTrack(track, distanceThreshold, speedThreshold) ==
    IF Len(track) < 2 THEN Null
    ELSE ImpactScan(track, 2, Null, distanceThreshold, speedThreshold)

\* (variant: of the points with the least y the last one is kept)
RECURSIVE TopScan_KeepsLast(_, _, _)
TopScan_KeepsLast(track, limit, best) ==
    IF track = <<>> THEN best
    ELSE LET point == Head(track) IN
         IF limit # Null /\ point.t > limit[1] THEN TopScan_KeepsLast(Tail(track), limit, best)
         ELSE IF best = Null \/ point.y <= best[1].y
         THEN TopScan_KeepsLast(Tail(track), limit, Some(point))
         ELSE TopScan_KeepsLast(Tail(track), limit, best)

\* the first club point with the least y among those at or before limit
\* (Null: no limit)
RECURSIVE TopScan(_, _, _)
TopScan(track, limit, best) ==
    IF track = <<>> THEN best
    ELSE LET point == Head(track) IN
         IF limit # Null /\ point.t > limit[1] THEN TopScan(Tail(track), limit, best)
         ELSE IF best = Null \/ point.y < best[1].y
         THEN TopScan(Tail(track), limit, Some(point))
         ELSE TopScan(Tail(track), limit, best)

\* (variant: the club track is searched with the ball's distance threshold)
detectEvents_SameThreshold(frames) ==
    LET clubTrack == buildTrack(frames, "club")
        ballTrack == buildTrack(frames, "ball")
        hasBall == Len(ballTrack) >= 2
        hasClub == Len(clubTrack) >= 2
        normalized == inferNormalized(clubTrack \o ballTrack)
        distanceThreshold == IF normalized THEN 4 ELSE 800
        speedThreshold == IF normalized THEN [num |-> 2, den |-> 25]
                          ELSE [num |-> 2, den |-> 1]
        ballImpact == IF hasBall
                      THEN detectImpactFromTrack(ballTrack, distanceThreshold, speedThreshold)
                      ELSE Null
        clubImpact == IF ballImpact = Null /\ hasClub
                      THEN detectImpactFromTrack(clubTrack, distanceThreshold,
                                                 speedThreshold)
                      ELSE Null
        impact == IF ballImpact # Null THEN ballImpact ELSE clubImpact
        impactSource == IF ballImpact # Null THEN "ball"
                        ELSE IF clubImpact # Null THEN "club" ELSE "none"
        top == IF Len(clubTrack) > 0
               THEN TopScan(clubTrack, IF impact = Null THEN Null ELSE Some(impact[1].t), Null)
               ELSE Null
    IN
    [events |-> [addressMs |-> IF frames = <<>> THEN Null ELSE Some(frames[1].t),
                 topMs |-> IF top = Null THEN Null ELSE Some(top[1].t),
                 impactMs |-> IF impact = Null THEN Null ELSE Some(impact[1].t),
                 finishMs |-> IF frames = <<>> THEN Null ELSE Some(frames[Len(frames)].t)],
     signals |-> [hasBall |-> hasBall, hasClub |-> hasClub, impactSource |-> impactSource]]

\* detectEvents: distance 0.04 / 8 and speed 0.0008 / 0.02 per ms, by the
\* domain inferred from the club and ball points taken together
detectEvents(frames) ==
    LET clubTrack == buildTrack(frames, "club")
        ballTrack == buildTrack(frames, "ball")
        hasBall == Len(ballTrack) >= 2
        hasClub == Len(clubTrack) >= 2
        normalized == inferNormalized(clubTrack \o ballTrack)
        distanceThreshold == IF normalized THEN 4 ELSE 800
        speedThreshold == IF normalized THEN [num |-> 2, den |-> 25]
                          ELSE [num |-> 2, den |-> 1]
        ballImpact == IF hasBall
                      THEN detectImpactFromTrack(ballTrack, distanceThreshold, speedThreshold)
                      ELSE Null
        clubImpact == IF ballImpact = Null /\ hasClub
                      THEN detectImpactFromTrack(clubTrack, distanceThreshold * 2,
                                                 speedThreshold)
                      ELSE Null
        impact == IF ballImpact # Null THEN ballImpact ELSE clubImpact
        impactSource == IF ballImpact # Null THEN "ball"
                        ELSE IF clubImpact # Null THEN "club" ELSE "none"
        top == IF Len(clubTrack) > 0
               THEN TopScan(clubTrack, IF impact = Null THEN Null ELSE Some(impact[1].t), Null)
               ELSE Null
    IN
    [events |-> [addressMs |-> IF frames = <<>> THEN Null ELSE Some(frames[1].t),
                 topMs |-> IF top = Null THEN Null ELSE Some(top[1].t),
                 impactMs |-> IF impact = Null THEN Null ELSE Some(impact[1].t),
                 finishMs |-> IF frames = <<>> THEN Null ELSE Some(frames[Len(frames)].t)],
     signals |-> [hasBall |-> hasBall, hasClub |-> hasClub, impactSource |-> impactSource]]

\* computeTempo
computeTempo(events) ==
    LET none == [backswingMs |-> Null, downswingMs |-> Null, ratio |-> Null] IN
    IF events.addressMs = Null \/ events.topMs = Null \/ events.impactMs = Null THEN none
    ELSE LET backswingMs == Max2(0, events.topMs[1] - events.addressMs[1])
             downswingMs == Max2(0, events.impactMs[1] - events.topMs[1])
         IN
         IF backswingMs = 0 \/ downswingMs = 0 THEN none
         ELSE [backswingMs |-> Some(backswingMs), downswingMs |-> Some(downswingMs),
               ratio |-> Some(RoundDiv(100 * backswingMs, downswingMs))]

\* Array.prototype.sort by t (stable)
RECURSIVE InsertByT(_, _)
InsertByT(sorted, point) ==
    IF sorted = <<>> THEN <<point>>
    ELSE IF sorted[Len(sorted)].t <= point.t THEN Append(sorted, point)
    ELSE Append(InsertByT(SubSeq(sorted, 1, Len(sorted) - 1), point), sorted[Len(sorted)])

RECURSIVE SortByT(_)
SortByT(points) ==
    IF points = <<>> THEN <<>>
    ELSE InsertByT(SortByT(SubSeq(points, 1, Len(points) - 1)), points[Len(points)])

\* the points within `within` ms of the impact; the whole track when the
\* impact is unknown or fewer than two points are that close
Window(track, impactMs, within) ==
    IF impactMs = Null THEN track
    ELSE LET near == SelectSeq(track, LAMBDA p : Abs(p.t - impactMs[1]) <= within) IN
         IF Len(near) < 2 THEN track ELSE near

\* computeSwingPlane: threshold 0.02 / 6
computeSwingPlane(track, impactMs) ==
    IF Len(track) < 2 THEN [label |-> "neutral", confidence |-> 0]
    ELSE LET window == SortByT(Window(track, impactMs, 250))
             dx == window[Len(window)].x - window[1].x
             threshold == IF inferNormalized(window) THEN 2 ELSE 600
         IN
         [label |-> IF dx < 0 - threshold THEN "outside-in"
                    ELSE IF dx > threshold THEN "inside-out" ELSE "neutral",
          confidence |-> Min2(100, RoundDiv(100 * Abs(dx), 2 * threshold))]

\* n * n times the sum of the variances of x and y over the window
Scatter(window) ==
    LET n == Len(window)
        xs == [i \in 1..n |-> window[i].x]
        ys == [i \in 1..n |-> window[i].y]
        xxs == [i \in 1..n |-> Sq(window[i].x)]
        yys == [i \in 1..n |-> Sq(window[i].y)]
    IN n * Sum(xxs) - Sq(Sum(xs)) + n * Sum(yys) - Sq(Sum(ys))

\* floor(m * m / 40000), computed without the square of m
SquareOver40000(m) ==
    LET a == m \div 200
        b == m % 200
    IN a * a + (400 * a * b + b * b) \div 40000

\* whether 1 - spread / reference >= k / 200, spread being
\* hypot(sqrt(varX), sqrt(varY)) = sqrt(scatter) / n
ScoreAtLeast(scatter, n, reference, k) ==
    k <= 0 \/ (k <= 200 /\ scatter <= SquareOver40000((200 - k) * n * reference))

\* Number(clamp(1 - spread / reference, 0, 1).toFixed(2)), in hundredths
Score(scatter, n, reference) ==
    CHOOSE s \in 0..100 :
        /\ ScoreAtLeast(scatter, n, reference, 2 * s - 1)
        /\ s = 100 \/ ~ScoreAtLeast(scatter, n, reference, 2 * s + 1)

\* (variant: the label is taken from the rounded score)
computeImpactStability_RoundedLabel(track, impactMs) ==
    IF Len(track) < 2 THEN [label |-> "unstable", score |-> 0]
    ELSE LET window == Window(track, impactMs, 200)
             reference == IF inferNormalized(window) THEN 5 ELSE 1200
             scatter == Scatter(window)
         IN
         [label |-> IF Score(scatter, Len(window), reference) >= 60
                    THEN "stable" ELSE "unstable",
          score |-> Score(scatter, Len(window), reference)]

\* (variant: only an empty track is answered without computing)
computeImpactStability_OnePoint(track, impactMs) ==
    IF Len(track) < 1 THEN [label |-> "unstable", score |-> 0]
    ELSE LET window == Window(track, impactMs, 200)
             reference == IF inferNormalized(window) THEN 5 ELSE 1200
             scatter == Scatter(window)
         IN
         [label |-> IF ScoreAtLeast(scatter, Len(window), reference, 120)
                    THEN "stable" ELSE "unstable",
          score |-> Score(scatter, Len(window), reference)]

\* computeImpactStability: reference 0.05 / 12, stable from 0.6
computeImpactStability(track, impactMs) ==
    IF Len(track) < 2 THEN [label |-> "unstable", score |-> 0]
    ELSE LET window == Window(track, impactMs, 200)
             reference == IF inferNormalized(window) THEN 5 ELSE 1200
             scatter == Scatter(window)
         IN
         [label |-> IF ScoreAtLeast(scatter, Len(window), reference, 120)
                    THEN "stable" ELSE "unstable",
          score |-> Score(scatter, Len(window), reference)]

\* `${ratio}` for a number given in hundredths: 200 is "2", 250 is "2.5",
\* 205 is "2.05"
NumberText(h) ==
    LET whole == ToString(h \div 100)
        frac == h % 100
    IN IF frac = 0 THEN <<whole>>
       ELSE IF frac % 10 = 0 THEN <<whole, ".", ToString(frac \div 10)>>
       ELSE IF frac < 10 THEN <<whole, ".0", ToString(frac)>>
       ELSE <<whole, ".", ToString(frac)>>

\* A text is the sequence of its pieces; the empty string is the empty
\* sequence.
EmptyText == <<>>
Text(s) == <<s>>

\* buildSummary
buildSummary(metrics, events, signals) ==
    LET plane == <<"Swing plane ", metrics.swingPlane.label>>
                 \o (IF metrics.swingPlane.confidence < 40
                     THEN <<" (low confidence)">> ELSE <<>>)
        stability == <<"Impact stability ", metrics.impactStability.label>>
        tempo == IF metrics.tempo.ratio # Null
                 THEN <<"Tempo ">> \o NumberText(metrics.tempo.ratio[1]) \o <<":1">>
                 ELSE <<"Tempo unavailable">>
        notes == (IF ~signals.hasClub THEN <<"clubhead not detected">> ELSE <<>>)
                 \o (IF events.impactMs = Null THEN <<"impact unknown">> ELSE <<>>)
    IN plane \o <<". ">> \o stability \o <<". ">> \o tempo \o <<".">>
       \o (IF notes = <<>> THEN <<>>
           ELSE IF Len(notes) = 1 THEN <<" Notes: ", notes[1], ".">>
           ELSE <<" Notes: ", notes[1], ", ", notes[2], ".">>)

\* calculateMetrics
calculateMetrics(frames, events, signals) ==
    LET clubTrack == buildTrack(frames, "club")
        metrics == [swingPlane |-> computeSwingPlane(clubTrack, events.impactMs),
                    tempo |-> computeTempo(events),
                    impactStability |-> computeImpactStability(clubTrack, events.impactMs)]
    IN [metrics |-> metrics,
        summary |-> buildSummary(metrics, events,
                                 [signals EXCEPT !.hasClub = Len(clubTrack) > 0 \/ @])]

\* detectEvents and calculateMetrics as the pipeline chains them on the
\* parsed frames
Analyse(frames) ==
    LET detected == detectEvents(frames)
        calculated == calculateMetrics(frames, detected.events, detected.signals)
    IN [events |-> Some(detected.events), metrics |-> Some(calculated.metrics),
        summary |-> Some(calculated.summary)]

\* The frames parseMeta gives for the two payloads the pipeline meets: a
\* swing (the ball leaves at 1200 ms, the clubhead is highest at 800 ms)
\* and a clip in which nothing was detected.
FramesOf(kind) ==
    IF kind = "swing"
    THEN <<Frame(0, Centre(50, 50), Centre(30, 80)),
           Frame(800, Centre(50, 49), Centre(30, 80)),
           Frame(1200, Centre(51, 50), Centre(40, 80)),
           Frame(1600, Centre(53, 50), Null)>>
    ELSE <<Frame(0, Null, Null), Frame(1600, Null, Null)>>

\* what the pipeline computes from the parsed frames of a payload
AnalysisOf(kind) == Analyse(FramesOf(kind))

(***************************************************************************)
(* server.js: runMetaAnalysisJob                                           *)
(***************************************************************************)
RunningPatch == [status |-> "running", startedAt |-> TS, errorMessage |-> Null]

FailedPatch(message, summary) ==
    [status |-> "failed", finishedAt |-> TS, errorMessage |-> Some(message),
     result |-> Some(buildAnalysisResult(OnlySummary(summary)))]

DonePatch(analysis) ==
    [status |-> "done", finishedAt |-> TS, errorMessage |-> Null,
     result |-> Some(buildAnalysisResult(analysis))]

\* the message of the error fs.writeFileSync throws
WriteError == "store write failed"
\* the message of an exception raised by the parsing or analysis code
AnalysisError == "analysis threw"

\* what a store write by the pipeline leaves behind
Outcome(jobs, esc, log) == [jobs |-> jobs, esc |-> esc, log |-> log]

\* updateJob writes the file only when it finds the record
LogOf(before, after, jobId) ==
    IF before[jobId] = Null THEN <<>> ELSE <<Trans(before, after, jobId)>>

Update(jobs, jobId, patch) ==
    Outcome(updateJob(jobs, jobId, patch), FALSE,
            LogOf(jobs, updateJob(jobs, jobId, patch), jobId))

\* the catch block: one more updateJob, outside any try
Catch(jobs, jobId, message, cOk) ==
    IF cOk
    THEN Update(jobs, jobId, FailedPatch(message, "Analysis failed."))
    ELSE Outcome(jobs, TRUE, <<>>)

\* an updateJob inside the try block, followed by return
TryUpdate(jobs, jobId, patch, wOk, cOk) ==
    IF wOk
    THEN Update(jobs, jobId, patch)
    ELSE Catch(jobs, jobId, WriteError, cOk)

\* The setImmediate callback: from the entry of runMetaAnalysisJob to its
\* first await, or to its end when it returns before.
RunMetaAnalysisJobStart(w1, w2, cOk) ==
    /\ immediates # <<>>
    /\ LET jobId == Head(immediates)
           job == getJob(store, jobId)
       IN
       /\ immediates' = Tail(immediates)
       /\ resp' = NoResp
       /\ UNCHANGED <<firstSubmit, faults, uploadVars, metricVars, toolVars>>
       /\ IF job = Null \/ jobId \in activeAnalysisJobs THEN
              /\ written' = <<>>
              /\ UNCHANGED <<store, activeAnalysisJobs, awaiting, escaped>>
          ELSE IF ~w1 THEN
              \* the first updateJob throws: catch, finally
              LET out == Catch(store, jobId, WriteError, cOk) IN
              /\ store' = out.jobs
              /\ written' = out.log
              /\ escaped' = IF out.esc THEN escaped \cup {jobId} ELSE escaped
              /\ UNCHANGED <<activeAnalysisJobs, awaiting>>
          ELSE
              LET store1 == updateJob(store, jobId, RunningPatch)
                  log1 == LogOf(store, store1, jobId)
                  videoPath == resolveUploadPath(job[1].filename)
              IN
              IF videoPath = Null \/ ~UploadExists(videoPath[1]) THEN
                  LET out == TryUpdate(store1, jobId,
                                       FailedPatch("Video file not found", "Video file not found."),
                                       w2, cOk)
                  IN
                  /\ store' = out.jobs
                  /\ written' = log1 \o out.log
                  /\ escaped' = IF out.esc THEN escaped \cup {jobId} ELSE escaped
                  /\ UNCHANGED <<activeAnalysisJobs, awaiting>>
              ELSE
                  /\ store' = store1
                  /\ written' = log1
                  /\ activeAnalysisJobs' = activeAnalysisJobs \cup {jobId}
                  /\ awaiting' = [awaiting EXCEPT ![jobId] = @ + 1]
                  /\ UNCHANGED escaped

\* The continuation after `await loadMetaPayload(jobId)`, to the end of
\* the function (finally included).
RunMetaAnalysisJobResume(jobId, meta, wOk, cOk) ==
    /\ awaiting[jobId] > 0
    /\ LET out ==
              IF meta = "none"
              THEN TryUpdate(store, jobId,
                             FailedPatch("Meta file not found", "Meta file not available."),
                             wOk, cOk)
              ELSE IF meta = "noframes"
              THEN TryUpdate(store, jobId,
                             FailedPatch("No frame data in meta", "No frame data available."),
                             wOk, cOk)
              ELSE IF meta = "throws"
              THEN Catch(store, jobId, AnalysisError, cOk)
              ELSE TryUpdate(store, jobId, DonePatch(AnalysisOf(meta)), wOk, cOk)
       IN
       /\ store' = out.jobs
       /\ written' = out.log
       /\ escaped' = IF out.esc THEN escaped \cup {jobId} ELSE escaped
    /\ activeAnalysisJobs' = activeAnalysisJobs \ {jobId}
    /\ awaiting' = [awaiting EXCEPT ![jobId] = @ - 1]
    /\ resp' = NoResp
    /\ UNCHANGED <<immediates, firstSubmit, faults, uploadVars, metricVars, toolVars>>

(***************************************************************************)
(* server.js: GET /api/analyze/:jobId and /result                          *)
(***************************************************************************)
ResultArg(result) ==
    IF result = Null THEN [events |-> Null, metrics |-> Null, summary |-> Null]
    ELSE [events |-> Some(result[1].events), metrics |-> Some(result[1].metrics),
          summary |-> IF result[1].summary = EmptyText THEN Null ELSE Some(result[1].summary)]

DefaultSummary(status) ==
    IF status = "running" THEN Text("Analysis running.")
    ELSE IF status = "pending" THEN Text("Analysis pending.")
    ELSE IF status = "failed" THEN Text("Analysis failed.")
    ELSE EmptyText

\* variant of the poll body: the stored result is not read
JobStatusBody_NoResult(jobId, job) ==
    LET result == buildAnalysisResult(ResultArg(Null)) IN
    [kind |-> "poll", code |-> 200, jobId |-> jobId, status |-> job.status,
     errorMessage |-> job.errorMessage,
     events |-> result.events, metrics |-> result.metrics,
     summary |-> IF result.summary # EmptyText THEN result.summary ELSE DefaultSummary(job.status)]

\* the body respondJobStatus sends for a stored job
JobStatusBody(jobId, job) ==
    LET result == buildAnalysisResult(ResultArg(job.result)) IN
    [kind |-> "poll", code |-> 200, jobId |-> jobId, status |-> job.status,
     errorMessage |-> job.errorMessage,
     events |-> result.events, metrics |-> result.metrics,
     summary |-> IF result.summary # EmptyText THEN result.summary ELSE DefaultSummary(job.status)]

respondJobStatus(jobId) ==
    LET job == getJob(store, jobId) IN
    /\ resp' = IF job # Null THEN JobStatusBody(jobId, job[1])
               ELSE [kind |-> "poll", code |-> 404, jobId |-> jobId]
    /\ written' = <<>>
    /\ UNCHANGED <<store, activeAnalysisJobs, immediates, awaiting, escaped,
                   firstSubmit, faults, uploadVars, metricVars, toolVars>>

(***************************************************************************)
(* server.js: the upload analysis routes (/api/analyze/upload, /api/analyze*)
(* and /api/upload?analyze=true) and analyzeAndStoreUploadedShot           *)
(***************************************************************************)
jobVars == <<store, activeAnalysisJobs, immediates, awaiting, escaped, firstSubmit, faults>>

\* what prepareVideoForAnalysis resolves to: the original file for any
\* other extension than .mov; for a .mov the original (no ffmpeg), a cached,
\* repackaged or transcoded file, or a failure
Prepared(ok, converted, conversion) ==
    [ok |-> ok, converted |-> converted, conversion |-> conversion]

PrepareOutcomes(ext) ==
    IF ext # ".mov" THEN {Prepared(TRUE, FALSE, "none")}
    ELSE {Prepared(TRUE, FALSE, "none"), Prepared(TRUE, TRUE, "cached"),
          Prepared(TRUE, TRUE, "remux"), Prepared(TRUE, TRUE, "transcode"),
          Prepared(FALSE, FALSE, "none")}

\* what precheckSwingCandidate resolves to
PrecheckResults == {[ok |-> TRUE, isSwing |-> FALSE], [ok |-> TRUE, isSwing |-> TRUE],
                    [ok |-> FALSE, isSwing |-> FALSE]}

\* String.prototype.toLowerCase and includes, on a text given as the
\* sequence of its words
toLowerCase(text) == [i \in DOMAIN text |-> ToLowerCase(text[i])]

includes(text, phrase) ==
    \E i \in 1..(Len(text) - Len(phrase) + 1) :
        SubSeq(text, i, i + Len(phrase) - 1) = phrase

DecodeIndicators ==
    {<<"cannot", "open", "video">>, <<"video", "file", "not", "found">>,
     <<"moov", "atom", "not", "found">>, <<"invalid", "data", "found">>,
     <<"unsupported">>, <<"decoder">>,
     <<"could", "not", "find", "codec", "parameters">>}

\* (variant: the message is searched as it is written)
isDecodeErrorMessage_CaseSensitive(message) ==
    /\ message # Null
    /\ \E phrase \in DecodeIndicators : includes(message[1], phrase)

\* isDecodeErrorMessage, on an optional text
isDecodeErrorMessage(message) ==
    /\ message # Null
    /\ \E phrase \in DecodeIndicators : includes(toLowerCase(message[1]), phrase)

\* The parts of an analysis that the pipeline looks at.
Analysis(errorMessage, errorCode, coach_summary) ==
    [errorMessage |-> errorMessage, errorCode |-> errorCode,
     coach_summary |-> coach_summary]

\* analyzeFrameSequence's fallback: the stub analyses and their summary
StubResult ==
    Analysis(Null, Null,
             <<<<"Shot", "classified", "as", "straight">>,
               <<"Path", "angle", "0", "launch", "0">>>>)

\* What the Python worker prints: an analysis, an analysis whose summary
\* reports a failure, one with an errorMessage that tells of a decoding
\* problem and one with another errorMessage.
WorkerResults ==
    {Analysis(Null, Null, <<<<"Shot", "classified", "as", "draw">>>>),
     Analysis(Null, Null, <<<<"Analysis", "failed">>>>),
     Analysis(Some(<<"Cannot", "open", "video">>), Null, <<>>),
     Analysis(Some(<<"worker", "out", "of", "memory">>), Null, <<>>)}

\* what the analyzer resolves to: the worker's result or the fallback
AnalyzerResults == WorkerResults \cup {StubResult}

\* looksLikeAnalysisFailure on the analysis to store
looksLikeAnalysisFailure(analysis) ==
    \/ analysis.errorMessage # Null
    \/ analysis.errorCode # Null
    \/ \E i \in DOMAIN analysis.coach_summary :
          includes(toLowerCase(analysis.coach_summary[i]), <<"analysis", "failed">>)

Shot(status, errorCode) == [status |-> status, errorCode |-> errorCode]

UploadResp(code, status, errorCode, ran) ==
    [kind |-> "upload", code |-> code, status |-> status, errorCode |-> errorCode,
     ran |-> ran]

\* the handler up to `await prepareVideoForAnalysis(...)`
UploadBegin(ext, force) ==
    /\ upload.pc = "idle"
    /\ upload' = [pc |-> "prepare", ext |-> ext, force |-> force, prepared |-> Null,
                  ran |-> <<>>]
    /\ resp' = NoResp
    /\ written' = <<>>
    /\ UNCHANGED <<jobVars, metricVars, shots>>

\* prepareVideoForAnalysis has settled: a failed preparation is stored as a
\* failed shot and answered, otherwise getVideoMeta is awaited
UploadPrepared(prepared) ==
    /\ upload.pc = "prepare"
    /\ prepared \in PrepareOutcomes(upload.ext)
    /\ written' = <<>>
    /\ UNCHANGED <<jobVars, metricVars>>
    /\ IF ~prepared.ok THEN
          /\ shots' = [shots EXCEPT ![upload.ext] = Some(Shot("failed", Some("DECODE_FAILED")))]
          /\ resp' = UploadResp(200, Some("failed"), Some("DECODE_FAILED"),
                                Append(upload.ran, "prepare"))
          /\ upload' = Idle
       ELSE
          /\ upload' = [upload EXCEPT !.pc = "meta", !.prepared = Some(prepared),
                                      !.ran = Append(@, "prepare")]
          /\ resp' = NoResp
          /\ UNCHANGED shots

\* an await inside prepareVideoForAnalysis rejected (mkdir, stat): the
\* handler's catch answers 500
UploadPrepareThrows ==
    /\ upload.pc = "prepare"
    /\ upload.ext = ".mov"
    /\ resp' = UploadResp(500, Null, Null, upload.ran)
    /\ upload' = Idle
    /\ written' = <<>>
    /\ UNCHANGED <<jobVars, metricVars, shots>>

\* (variant: the precheck is awaited whatever the force flag)
UploadProbed_AlwaysPrecheck ==
    /\ upload.pc = "meta"
    /\ upload' = [upload EXCEPT !.pc = "precheck"]
    /\ resp' = NoResp
    /\ written' = <<>>
    /\ UNCHANGED <<jobVars, metricVars, shots>>

\* getVideoMeta has settled: the precheck is awaited unless force is set
UploadProbed ==
    /\ upload.pc = "meta"
    /\ upload' = [upload EXCEPT !.pc = IF upload.force THEN "analyze" ELSE "precheck"]
    /\ resp' = NoResp
    /\ written' = <<>>
    /\ UNCHANGED <<jobVars, metricVars, shots>>

\* precheckSwingCandidate has settled: a definitive negative is stored as
\* NOT_SWING and answered, otherwise the analyzer is awaited
UploadPrechecked(precheckResult) ==
    /\ upload.pc = "precheck"
    /\ written' = <<>>
    /\ UNCHANGED <<jobVars, metricVars>>
    /\ IF precheckResult.ok /\ ~precheckResult.isSwing THEN
          /\ shots' = [shots EXCEPT ![upload.ext] = Some(Shot("failed", Some("NOT_SWING")))]
          /\ resp' = UploadResp(200, Some("failed"), Some("NOT_SWING"),
                                Append(upload.ran, "precheck"))
          /\ upload' = Idle
       ELSE
          /\ upload' = [upload EXCEPT !.pc = "analyze", !.ran = Append(@, "precheck")]
          /\ resp' = NoResp
          /\ UNCHANGED shots

\* opencvAnalyzer.analyze has settled: the shot is stored and answered
UploadAnalyzed(analysis) ==
    /\ upload.pc = "analyze"
    /\ LET tagged == IF analysis.errorCode = Null
                         /\ isDecodeErrorMessage(analysis.errorMessage)
                      THEN [analysis EXCEPT !.errorCode = Some("DECODE_FAILED")]
                      ELSE analysis
           status == IF looksLikeAnalysisFailure(tagged) THEN "failed" ELSE "succeeded"
       IN
       /\ shots' = [shots EXCEPT ![upload.ext] = Some(Shot(status, tagged.errorCode))]
       /\ resp' = UploadResp(200, Some(status), tagged.errorCode,
                             Append(upload.ran, "analyze"))
    /\ upload' = Idle
    /\ written' = <<>>
    /\ UNCHANGED <<jobVars, metricVars>>

(***************************************************************************)
(* Specifications                                                          *)
(***************************************************************************)
Submit ==
    \E body \in Bodies, force \in BOOLEAN, w1 \in WriteOutcomes, w2 \in WriteOutcomes :
        AnalyzeFromFile(body.jobId, body.filename, force, w1, w2)

PipelineStart ==
    \E w1 \in WriteOutcomes, w2 \in WriteOutcomes, cOk \in WriteOutcomes :
        RunMetaAnalysisJobStart(w1, w2, cOk)

PipelineResume ==
    \E jobId \in JobIds, meta \in MetaKinds, wOk \in WriteOutcomes, cOk \in WriteOutcomes :
        RunMetaAnalysisJobResume(jobId, meta, wOk, cOk)

Poll == \E jobId \in JobIds : respondJobStatus(jobId)

Next == Submit \/ PipelineStart \/ PipelineResume \/ Poll

Spec == Init /\ [][Next]_vars

\* One identifier, as submitted by the camera: by jobId alone or with the
\* name of a recording that is not in the upload directory.
FirstJob == [n |-> 1, sep |-> FALSE]

SubmitFirst ==
    \E filename \in {Null, Some(File("", FirstJob, ".MOV"))}, force \in BOOLEAN,
       w1 \in WriteOutcomes, w2 \in WriteOutcomes :
        AnalyzeFromFile(Some(FirstJob), filename, force, w1, w2)

\* The job orchestrator for one identifier while writes of the store file
\* may throw and the analysis code may throw.
InitFaults ==
    /\ store = [j \in JobIds |-> Null]
    /\ activeAnalysisJobs = {}
    /\ immediates = <<>>
    /\ awaiting = [j \in JobIds |-> 0]
    /\ escaped = {}
    /\ resp = NoResp
    /\ written = <<>>
    /\ firstSubmit = [j \in JobIds |-> Null]
    /\ faults = TRUE
    /\ upload = Idle
    /\ shots = [e \in UploadExts |-> Null]
    /\ clip = <<>>
    /\ report = Null
    /\ tools = NotProbed
    /\ proc = Null
    /\ disk = EmptyDisk
    /\ prep = Resting
    /\ crashed = FALSE
    /\ payload = [fps |-> [type |-> "undefined", value |-> 0], frames |-> <<>>]
    /\ parsed = Null

NextFaults == SubmitFirst \/ PipelineStart \/ PipelineResume \/ Poll

SpecFaults == InitFaults /\ [][NextFaults]_vars

\* Both kinds of analysis request side by side: the upload routes and, for
\* one identifier, the from-file route with its pipeline.
UploadStart ==
    /\ \E ext \in UploadExts, force \in BOOLEAN : UploadBegin(ext, force)
    /\ UNCHANGED toolVars

UploadPrepare ==
    /\ \E prepared \in PrepareOutcomes(upload.ext) : UploadPrepared(prepared)
    /\ UNCHANGED toolVars

UploadThrows == UploadPrepareThrows /\ UNCHANGED toolVars

UploadMeta == UploadProbed /\ UNCHANGED toolVars

UploadPrecheck ==
    /\ \E precheckResult \in PrecheckResults : UploadPrechecked(precheckResult)
    /\ UNCHANGED toolVars

UploadAnalyze ==
    /\ \E analysis \in AnalyzerResults : UploadAnalyzed(analysis)
    /\ UNCHANGED toolVars

NextRoutes ==
    \/ SubmitFirst \/ PipelineStart \/ PipelineResume
    \/ UploadStart \/ UploadPrepare \/ UploadThrows \/ UploadMeta
    \/ UploadPrecheck \/ UploadAnalyze

SpecRoutes == Init /\ [][NextRoutes]_vars

(***************************************************************************)
(* The event detector and the metrics engine on bounded payloads           *)
(***************************************************************************)
\* longest payload explored, in frames
MaxFrames == 3

\* Timestamps of the frames after the first, which is at 0.  parseMeta
\* orders the frames by frame index and keeps the timestamps the payload
\* gives, so two frames can carry the same timestamp and a later frame an
\* earlier one.
EventTimes == {0, 10, 110}

FrameTimes == IF clip = <<>> THEN {0} ELSE EventTimes

\* Centres of the ball: 0.13 and 0.18 of the picture width.
BallCentres == {Centre(13, 10), Centre(18, 10)}

\* Centres of the clubhead, in normalized coordinates and in pixels (a
\* detector reports all its boxes of one kind in one domain).
ClubCentres == {Centre(10, 30), Centre(15, 27)}
ClubCentresPx == {Centre(2000, 6000), Centre(2600, 5250)}

ClubChoices ==
    LET track == buildTrack(clip, "club") IN
    {Null} \cup (IF track = <<>> THEN ClubCentres \cup ClubCentresPx
                 ELSE IF inferNormalized(track) THEN ClubCentres ELSE ClubCentresPx)

Unchanged_Others ==
    UNCHANGED <<jobVars, uploadVars, toolVars, resp, written, payload, parsed>>

\* one more frame of the payload
ReceiveFrame ==
    /\ report = Null
    /\ Len(clip) < MaxFrames
    /\ \E t \in FrameTimes, club \in ClubChoices, ball \in {Null} \cup BallCentres :
          clip' = Append(clip, Frame(t, club, ball))
    /\ UNCHANGED report
    /\ Unchanged_Others

\* detectEvents, then calculateMetrics, on the frames received (the two
\* functions accept an empty list as well)
Analyze ==
    /\ report = Null
    /\ LET detected == detectEvents(clip)
           calculated == calculateMetrics(clip, detected.events, detected.signals)
       IN report' = Some([events |-> detected.events, signals |-> detected.signals,
                          metrics |-> calculated.metrics, summary |-> calculated.summary])
    /\ UNCHANGED clip
    /\ Unchanged_Others

NextEvents == ReceiveFrame \/ Analyze

SpecEvents == Init /\ [][NextEvents]_vars

\* Payloads for the metrics: the clubhead alone, in normalized coordinates,
\* at 0.02 .. 0.06 of the picture, 10 or 300 ms apart.
MetricCentres == {Centre(2, 2), Centre(5, 2), Centre(6, 4)}
MetricSteps == {10, 300}

ReceiveClubFrame ==
    /\ report = Null
    /\ Len(clip) < MaxFrames
    /\ \E step \in MetricSteps, club \in MetricCentres :
          clip' = Append(clip, Frame(IF clip = <<>> THEN 0 ELSE clip[Len(clip)].t + step,
                                     club, Null))
    /\ UNCHANGED report
    /\ Unchanged_Others

NextMetrics == ReceiveClubFrame \/ Analyze

SpecMetrics == Init /\ [][NextMetrics]_vars

(***************************************************************************)
(* store/job_store.js: the two writing operations on a store file that     *)
(* may be unreadable                                                       *)
(***************************************************************************)
\* loadStore: the parsed file, or { jobs: [] } when reading or parsing
\* throws
loadStore(jobs, readable) == IF readable THEN jobs ELSE [j \in JobIds |-> Null]

\* upsertJob(job) for an accepted submission: load, replace or append, save
StoreUpsert ==
    /\ \E jobId \in JobIds, readable \in BOOLEAN :
          LET loaded == loadStore(store, readable) IN
          store' = upsertJob(loaded, NewJob(jobId, File("", jobId, ".mp4"),
                                            getJob(loaded, jobId)))
    /\ UNCHANGED <<activeAnalysisJobs, immediates, awaiting, escaped, firstSubmit, faults,
                   resp, written, uploadVars, metricVars, toolVars>>

\* updateJob(jobId, patch) with the patches of the pipeline: load, merge
\* and save; nothing is saved when the record is not found
StoreUpdate ==
    /\ \E jobId \in JobIds, readable \in BOOLEAN,
          patch \in {RunningPatch, DonePatch(AnalysisOf("swing")),
                     FailedPatch("Video file not found", "Video file not found."),
                     FailedPatch("Meta file not found", "Meta file not available.")} :
          LET loaded == loadStore(store, readable) IN
          store' = IF getJob(loaded, jobId) = Null THEN store
                   ELSE updateJob(loaded, jobId, patch)
    /\ UNCHANGED <<activeAnalysisJobs, immediates, awaiting, escaped, firstSubmit, faults,
                   resp, written, uploadVars, metricVars, toolVars>>

NextStore == StoreUpsert \/ StoreUpdate

SpecStore == Init /\ [][NextStore]_vars

(***************************************************************************)
(* The meta normalizer: timestamps and order of the frames of a payload.   *)
(* A JSON value is a record [type, value]; a raw number of the payload is  *)
(* a whole number, and a normalized timestamp is counted in thirds of a    *)
(* millisecond (3 = 1 ms), so that frameIndex / fps * 1000 is whole for    *)
(* the frame rates 25 and 30.                                              *)
(***************************************************************************)
\* longest frame list explored
MaxRawFrames == 2

\* the frame rate assumed when the payload names none
DEFAULT_FPS == 30

\* what a field of the payload can hold: nothing, null, a text that is not
\* a number, or one of `numbers`
JsValues(numbers) ==
    {[type |-> "undefined", value |-> 0], [type |-> "null", value |-> 0],
     [type |-> "string", value |-> 0]}
        \cup {[type |-> "number", value |-> n] : n \in numbers}

\* toNumber: Number(value) when finite (Number(null) is 0), else null
toNumber(value) ==
    IF value.type = "number" THEN Some(value.value)
    ELSE IF value.type = "null" THEN Some(0)
    ELSE Null

\* (variant: a raw value from 1000 on is multiplied as well)
normalizeTimestamp_AlwaysSeconds(raw, frameIndex, fps) ==
    LET t == toNumber(raw) IN
    IF t # Null THEN Some(3000 * t[1])
    ELSE IF frameIndex # Null /\ fps # Null /\ fps[1] > 0
         THEN Some((3000 * frameIndex[1]) \div fps[1])
    ELSE IF frameIndex # Null THEN Some(frameIndex[1] * (3000 \div DEFAULT_FPS))
    ELSE Null

\* normalizeTimestamp; frameIndex and fps are Null when not finite
normalizeTimestamp(raw, frameIndex, fps) ==
    LET t == toNumber(raw) IN
    IF t # Null THEN Some(IF t[1] < 1000 THEN 3000 * t[1] ELSE 3 * t[1])
    ELSE IF frameIndex # Null /\ fps # Null /\ fps[1] > 0
         THEN Some((3000 * frameIndex[1]) \div fps[1])
    ELSE IF frameIndex # Null THEN Some(frameIndex[1] * (3000 \div DEFAULT_FPS))
    ELSE Null

\* parseFrame, without the detections: `frame` is the first of the fields
\* frame, frame_id, .. that is set, `t` the first of t, time, ..
parseFrame(rawFrame, index, fps) ==
    IF ~rawFrame.object THEN Null
    ELSE LET given == toNumber(rawFrame.frame)
             frameIndex == IF given # Null THEN given[1] ELSE index
         IN Some([t |-> normalizeTimestamp(rawFrame.t, Some(frameIndex), Some(fps)),
                  frame |-> frameIndex])

\* parseMeta: the frames with a finite t, in the (stable) order of their
\* frame index
parseMeta(meta) ==
    LET given == toNumber(meta.fps)
        fps == IF given # Null THEN given[1] ELSE DEFAULT_FPS
        n == Len(meta.frames)
        frame == [i \in 1..n |-> parseFrame(meta.frames[i], i - 1, fps)]
        kept == {i \in 1..n : frame[i] # Null /\ frame[i][1].t # Null}
        before(i, j) == \/ frame[i][1].frame < frame[j][1].frame
                        \/ frame[i][1].frame = frame[j][1].frame /\ i < j
        at(k) == CHOOSE i \in kept : Cardinality({j \in kept : before(j, i)}) = k - 1
    IN [frames |-> [k \in 1..Cardinality(kept) |->
                        [t |-> frame[at(k)][1].t[1], frame |-> frame[at(k)][1].frame]],
        fps |-> fps]

\* the frames a payload can list: an entry that is no object, or a frame
\* with or without a frame index and a timestamp
RawFrames ==
    {[object |-> FALSE, frame |-> [type |-> "undefined", value |-> 0],
      t |-> [type |-> "undefined", value |-> 0]]}
        \cup [object : {TRUE}, frame : JsValues({5}), t : JsValues({2, 999, 1000})]

\* the payload names its frame rate
PayloadFps ==
    /\ parsed = Null
    /\ \E fps \in JsValues({0, 25}) \ {payload.fps} :
          payload' = [payload EXCEPT !.fps = fps]
    /\ UNCHANGED <<jobVars, uploadVars, toolVars, resp, written, clip, report, parsed>>

\* one more entry of the payload's frame list
PayloadFrame ==
    /\ parsed = Null
    /\ Len(payload.frames) < MaxRawFrames
    /\ \E rawFrame \in RawFrames :
          payload' = [payload EXCEPT !.frames = Append(@, rawFrame)]
    /\ UNCHANGED <<jobVars, uploadVars, toolVars, resp, written, clip, report, parsed>>

\* parseMeta on the payload read
Normalize ==
    /\ parsed = Null
    /\ parsed' = Some(parseMeta(payload))
    /\ UNCHANGED <<jobVars, uploadVars, toolVars, resp, written, clip, report, payload>>

NextMeta == PayloadFps \/ PayloadFrame \/ Normalize

SpecMeta == Init /\ [][NextMeta]_vars

(***************************************************************************)
(* server.js, analysis/engine.js: the upload pipeline with its external    *)
(* tools (ffmpeg, ffprobe, the Python worker)                              *)
(***************************************************************************)
\* a spawned child process; `timer` tells whether a timeout that kills it
\* has been armed
Child(command, purpose, timer) ==
    [command |-> command, purpose |-> purpose, timer |-> timer]

\* the messages of a failed transcode other than `ffmpeg timeout`: what
\* ffmpeg wrote to stderr, or its exit code
ToolErrors == {<<"moov", "atom", "not", "found">>, <<"ffmpeg", "exited", "with", "1">>}

\* a step that answers no request and touches no store
ToolStep ==
    /\ resp' = NoResp
    /\ written' = <<>>
    /\ UNCHANGED <<jobVars, metricVars, uploadVars>>

\* A request arrives with a clip; `key` stands for the name, modification
\* time and size of the file multer stored.
UploadArrives ==
    /\ \E ext \in UploadExts, force \in BOOLEAN : UploadBegin(ext, force)
    /\ \E key \in CacheKeys :
          prep' = [pc |-> "start", key |-> key, found |-> disk[key] # "absent",
                   ran |-> <<>>, codec |-> Null, error |-> Null]
    /\ UNCHANGED <<tools, proc, disk, crashed>>

\* ensureFfmpegAvailability: the tool it asks about next, if any
Unprobed ==
    IF tools.ffmpeg = Null THEN Some("ffmpeg")
    ELSE IF tools.ffprobe = Null THEN Some("ffprobe") ELSE Null

\* prepareVideoForAnalysis on a .mov, at or past ensureFfmpegAvailability
Converting == upload.pc = "prepare" /\ upload.ext = ".mov" /\ prep.pc = "start"

\* commandAvailable: `<command> -version` is spawned, without a timeout
CommandAvailable ==
    /\ Converting \/ upload.pc = "meta"
    /\ proc = Null
    /\ Unprobed # Null
    /\ proc' = Some(Child(Unprobed[1], "version", FALSE))
    /\ UNCHANGED <<tools, disk, prep, crashed>>
    /\ ToolStep

\* its 'error' or 'close' event
VersionSettles ==
    /\ proc # Null /\ proc[1].purpose = "version"
    /\ \E available \in BOOLEAN :
          tools' = [tools EXCEPT ![proc[1].command] = Some(available)]
    /\ proc' = Null
    /\ UNCHANGED <<disk, prep, crashed>>
    /\ ToolStep

\* runCommand('ffmpeg', ...) is spawned with its timeout; `codec` is what
\* getVideoCodecName returned (Some(Null): null)
Convert(conversion, codec) ==
    /\ proc' = Some(Child("ffmpeg", conversion, TRUE))
    /\ prep' = [prep EXCEPT !.pc = conversion, !.ran = Append(@, conversion),
                            !.codec = codec]

\* a conversion that did not succeed may leave a partial output file
Leftover == {disk, [disk EXCEPT ![prep.key] = "partial"]}

\* prepareVideoForAnalysis returns the original file: another container
\* than .mov, or no ffmpeg
PrepareOriginal ==
    /\ upload.pc = "prepare" /\ prep.pc = "start"
    /\ upload.ext # ".mov" \/ (Unprobed = Null /\ tools.ffmpeg = Some(FALSE))
    /\ UploadPrepared(Prepared(TRUE, FALSE, "none"))
    /\ prep' = [prep EXCEPT !.pc = "rest"]
    /\ UNCHANGED <<tools, proc, disk, crashed>>

\* mkdir or stat rejects
PrepareThrows ==
    /\ Converting /\ Unprobed = Null /\ tools.ffmpeg = Some(TRUE)
    /\ UploadPrepareThrows
    /\ prep' = [prep EXCEPT !.pc = "rest"]
    /\ UNCHANGED <<tools, proc, disk, crashed>>

\* (variant: the prepared file is not looked up)
PrepareLooksUp_NoCache ==
    /\ Converting /\ Unprobed = Null /\ tools.ffmpeg = Some(TRUE)
    /\ UNCHANGED <<tools, disk, crashed>>
    /\ IF FALSE THEN
          /\ UploadPrepared(Prepared(TRUE, TRUE, "cached"))
          /\ prep' = [prep EXCEPT !.pc = "rest"]
          /\ UNCHANGED proc
       ELSE IF tools.ffprobe = Some(TRUE) THEN
          /\ proc' = Some(Child("ffprobe", "codec", TRUE))
          /\ prep' = [prep EXCEPT !.pc = "codec", !.ran = Append(@, "codec")]
          /\ ToolStep
       ELSE
          /\ Convert("remux", Some(Null))
          /\ ToolStep

\* mkdir, stat, existsSync(outPath); on a miss getVideoCodecName spawns
\* ffprobe, or, without ffprobe, the codec is null and the remux is spawned
PrepareLooksUp ==
    /\ Converting /\ Unprobed = Null /\ tools.ffmpeg = Some(TRUE)
    /\ UNCHANGED <<tools, disk, crashed>>
    /\ IF disk[prep.key] # "absent" THEN
          /\ UploadPrepared(Prepared(TRUE, TRUE, "cached"))
          /\ prep' = [prep EXCEPT !.pc = "rest"]
          /\ UNCHANGED proc
       ELSE IF tools.ffprobe = Some(TRUE) THEN
          /\ proc' = Some(Child("ffprobe", "codec", TRUE))
          /\ prep' = [prep EXCEPT !.pc = "codec", !.ran = Append(@, "codec")]
          /\ ToolStep
       ELSE
          /\ Convert("remux", Some(Null))
          /\ ToolStep

\* (variant: a transcode follows the probe whatever the codec)
CodecSettles_AlwaysTranscode ==
    /\ proc # Null /\ proc[1].purpose = "codec"
    /\ \E codec \in {Some("h264"), Some("hevc"), Null} :
          Convert("transcode", Some(codec))
    /\ UNCHANGED <<tools, disk, crashed>>
    /\ ToolStep

\* getVideoCodecName settles: a codec name, or null (failure, timeout,
\* empty output)
CodecSettles ==
    /\ proc # Null /\ proc[1].purpose = "codec"
    /\ \E codec \in {Some("h264"), Some("hevc"), Null} :
          Convert(IF codec = Some("h264") \/ codec = Null THEN "remux" ELSE "transcode",
                  Some(codec))
    /\ UNCHANGED <<tools, disk, crashed>>
    /\ ToolStep

\* the remux settles: success, or failure (non-zero exit, timeout) and the
\* transcode is spawned
RemuxSettles ==
    /\ proc # Null /\ proc[1].purpose = "remux"
    /\ UNCHANGED <<tools, crashed>>
    /\ \/ /\ disk' = [disk EXCEPT ![prep.key] = "whole"]
          /\ proc' = Null
          /\ prep' = [prep EXCEPT !.pc = "rest"]
          /\ UploadPrepared(Prepared(TRUE, TRUE, "remux"))
       \/ /\ disk' \in Leftover
          /\ Convert("transcode", prep.codec)
          /\ ToolStep

\* the transcode settles: success, or failure with err.message
TranscodeSettles ==
    /\ proc # Null /\ proc[1].purpose = "transcode"
    /\ UNCHANGED <<tools, crashed>>
    /\ proc' = Null
    /\ \/ /\ disk' = [disk EXCEPT ![prep.key] = "whole"]
          /\ prep' = [prep EXCEPT !.pc = "rest"]
          /\ UploadPrepared(Prepared(TRUE, TRUE, "transcode"))
       \/ /\ disk' \in Leftover
          /\ \E message \in ToolErrors \cup {<<"ffmpeg", "timeout">>} :
                prep' = [prep EXCEPT !.pc = "rest", !.error = Some(message)]
          /\ UploadPrepared(Prepared(FALSE, FALSE, "none"))

\* getVideoMeta: ffprobe is spawned with its timeout, or, without ffprobe,
\* {} is returned
MetaProbe ==
    /\ upload.pc = "meta" /\ Unprobed = Null /\ proc = Null
    /\ UNCHANGED <<tools, disk, prep, crashed>>
    /\ IF tools.ffprobe = Some(TRUE)
       THEN proc' = Some(Child("ffprobe", "meta", TRUE)) /\ ToolStep
       ELSE UploadProbed /\ UNCHANGED proc

\* getVideoMeta settles, with the metadata or with {}
MetaSettles ==
    /\ proc # Null /\ proc[1].purpose = "meta"
    /\ proc' = Null
    /\ UploadProbed
    /\ UNCHANGED <<tools, disk, prep, crashed>>

\* runPythonAnalysis: python3 is spawned, without a timeout
WorkerSpawn ==
    /\ ~crashed
    /\ upload.pc = "analyze" /\ proc = Null
    /\ proc' = Some(Child("python3", "analysis", FALSE))
    /\ UNCHANGED <<tools, disk, prep, crashed>>
    /\ ToolStep

\* The worker fails.  "spawn": python3 cannot be started, the child emits
\* 'error', for which runPythonAnalysis has no listener: the event is
\* thrown as an uncaught exception and the server exits.  "exit": the
\* worker closes with a non-zero code; "json": it prints no valid JSON;
\* in both the promise rejects and analyzeFrameSequence falls back on the
\* stub.
WorkerFails(how) ==
    /\ proc # Null /\ proc[1].purpose = "analysis"
    /\ proc' = Null
    /\ UNCHANGED <<tools, disk, prep>>
    /\ IF how = "spawn"
       THEN crashed' = TRUE /\ ToolStep
       ELSE UNCHANGED crashed /\ UploadAnalyzed(StubResult)

\* the worker closes with code 0 and has printed an analysis
WorkerAnswers(analysis) ==
    /\ proc # Null /\ proc[1].purpose = "analysis"
    /\ proc' = Null
    /\ UNCHANGED <<tools, disk, prep, crashed>>
    /\ UploadAnalyzed(analysis)

WorkerSettles ==
    \/ \E how \in {"spawn", "exit", "json"} : WorkerFails(how)
    \/ \E analysis \in WorkerResults : WorkerAnswers(analysis)

\* The process manager starts the server again (autorestart): the memory
\* of the process is lost, the files on disk stay.
Restart ==
    /\ crashed \/ upload = Idle
    /\ tools # NotProbed \/ crashed
    /\ tools' = NotProbed
    /\ proc' = Null
    /\ prep' = [prep EXCEPT !.pc = "rest"]
    /\ crashed' = FALSE
    /\ upload' = Idle
    /\ resp' = NoResp
    /\ written' = <<>>
    /\ UNCHANGED <<jobVars, metricVars, shots, disk>>

\* (a server that has exited is at "analyze" without a child process:
\* until it is started again no step but WorkerSpawn would be possible)
NextUpload ==
    \/ UploadArrives \/ CommandAvailable \/ VersionSettles
    \/ PrepareOriginal \/ PrepareThrows \/ PrepareLooksUp
    \/ CodecSettles \/ RemuxSettles \/ TranscodeSettles
    \/ MetaProbe \/ MetaSettles \/ UploadPrecheck
    \/ WorkerSpawn \/ WorkerSettles
    \/ Restart

SpecUpload == Init /\ [][NextUpload]_vars

(***************************************************************************)
(* Properties                                                              *)
(***************************************************************************)
Records == {j \in JobIds : store[j] # Null}
Job(j) == store[j][1]

\* the number of runMetaAnalysisJob calls for j that are scheduled by
\* setImmediate or suspended at their await
Scheduled(j) == Cardinality({i \in 1..Len(immediates) : immediates[i] = j})
InFlight(j) == Scheduled(j) + awaiting[j]

\* the program state a request handler may touch
Orchestrator == <<store, activeAnalysisJobs, immediates, awaiting>>

\* C1: for every identifier at most one pipeline execution is scheduled or
\* running at any time.
C1_AtMostOneExecution == \A j \in JobIds : InFlight(j) <= 1

\* a forced submission has just been answered while the pipeline of its
\* identifier is suspended at its await
C1_Witness ==
    /\ resp.kind = "submit" /\ resp.code = 200 /\ resp.force
    /\ resp.prior = "running"
    /\ awaiting[resp.jobId] = 1

IsPairedSubmit == resp.kind = "submit" /\ resp.code = 200 /\ ~resp.force /\ resp.pair # Null

\* C2 as stated: two submissions of one identifier without force, at any
\* two moments, get the same status and cause exactly one execution.
C2_Original ==
    IsPairedSubmit =>
        /\ resp.status = Some(resp.pair[1].status)
        /\ resp.pair[1].runs = 1

\* C2 amended: the two submissions get the same status (running) and cause
\* one execution when the second arrives while the job is still running;
\* after the job finished as done the second gets done and one execution
\* has been caused; after it finished as failed the second is accepted,
\* gets running and causes a second execution.
C2_Idempotence ==
    IsPairedSubmit =>
        /\ resp.prior \in {"running", "done", "failed"}
        /\ resp.prior = "running" =>
              resp.status = Some(resp.pair[1].status) /\ resp.pair[1].runs = 1
        /\ resp.prior = "done" =>
              resp.status = Some("done") /\ resp.pair[1].runs = 1
        /\ resp.prior = "failed" =>
              resp.status = Some("running") /\ resp.pair[1].runs = 2

C2_Witness == IsPairedSubmit /\ resp.prior = "running" /\ InFlight(resp.jobId) = 1

\* C3: a submission that finds its identifier pending, running or done
\* (without force) or running (with force) answers the stored status and
\* changes neither the job store nor the in-flight set nor the schedule.
C3_ResubmitIsNoOp ==
    [][(/\ resp'.kind = "submit" /\ resp'.code = 200
        /\ LET st == StatusOf(store, resp'.jobId) IN
              \/ ~resp'.force /\ st \in {"pending", "running", "done"}
              \/ resp'.force /\ st = "running")
       => (/\ resp'.status = Some(StatusOf(store, resp'.jobId))
           /\ ~resp'.accepted
           /\ Orchestrator' = Orchestrator)]_vars

C3_Witness ==
    /\ resp.kind = "submit" /\ resp.code = 200 /\ ~resp.force
    /\ resp.prior = "done" /\ ~resp.accepted

\* the statuses the last step wrote for j, in order
WrittenTo(log, j) ==
    LET F[i \in 0..Len(log)] ==
            IF i = 0 THEN <<>>
            ELSE IF log[i].jobId = j THEN Append(F[i - 1], log[i].to) ELSE F[i - 1]
    IN F[Len(log)]

ForwardMoves ==
    {<<"none", "pending">>, <<"pending", "running">>, <<"running", "running">>,
     <<"running", "done">>, <<"running", "failed">>}

\* C4: the stored status of an identifier moves only along
\* pending -> running -> done | failed; a finished job changes status only
\* through an accepted submission, which writes pending and then running.
C4_StatusOrder ==
    [][\A j \in JobIds :
         LET chain == <<StatusOf(store, j)>> \o WrittenTo(written', j) IN
         /\ chain[Len(chain)] = StatusOf(store', j)
         /\ \A i \in 1..(Len(chain) - 1) :
              \/ <<chain[i], chain[i + 1]>> \in ForwardMoves
              \/ /\ i = 1 /\ chain[1] \in {"done", "failed"}
                 /\ chain = <<chain[1], "pending", "running">>
                 /\ resp'.kind = "submit" /\ resp'.accepted /\ resp'.jobId = j]_vars

C4_Witness ==
    /\ Len(written) = 2 /\ written[1].from = "failed" /\ written[1].to = "pending"
    /\ written[2].to = "running"

\* C5: a pending or running job has result null; result is non-null only
\* for done and failed jobs, also after a resubmission.
C5_ResultOnlyWhenFinished ==
    \A j \in Records :
        /\ Job(j).status \in {"pending", "running"} => Job(j).result = Null
        /\ Job(j).result # Null => Job(j).status \in {"done", "failed"}

\* a done job has just been resubmitted (with force) and runs again
C5_Witness ==
    /\ resp.kind = "submit" /\ resp.code = 200 /\ resp.accepted
    /\ resp.prior = "done"
    /\ Job(resp.jobId).status = "running"

\* C6: done and failed jobs have finishedAt; failed jobs have an
\* errorMessage and done jobs none; pending and running jobs have no
\* finishedAt.
C6_FinishedFields ==
    \A j \in Records :
        /\ Job(j).status \in {"done", "failed"} => Job(j).finishedAt # Null
        /\ Job(j).status = "failed" => Job(j).errorMessage # Null
        /\ Job(j).status = "done" => Job(j).errorMessage = Null
        /\ Job(j).status \in {"pending", "running"} => Job(j).finishedAt = Null

\* one job has failed while another, resubmitted after a failure, runs
C6_Witness ==
    /\ resp.kind = "submit" /\ resp.code = 200 /\ resp.accepted
    /\ resp.prior = "failed"
    /\ \E j \in Records : Job(j).status = "failed"

\* the acknowledgment of an accepted analysis request
AckFromFile == resp.kind = "submit" /\ resp.code = 200 /\ resp.accepted
AckUpload == resp.kind = "upload" /\ resp.code = 200

\* an accepted from-file request is answered with the job stored as
\* running and its pipeline scheduled but not started
AckedBeforePipeline ==
    AckFromFile =>
        /\ resp.status = Some("running")
        /\ StatusOf(store, resp.jobId) = "running"
        /\ Scheduled(resp.jobId) = 1
        /\ awaiting[resp.jobId] = 0
        /\ resp.jobId \notin activeAnalysisJobs

\* C7 as stated: every accepted analysis request, from-file or upload, is
\* acknowledged before its pipeline completes, no caller waits for
\* preparation, precheck or analysis.
C7_Original ==
    /\ AckedBeforePipeline
    /\ AckUpload => resp.ran = <<>>

\* C7 amended: an accepted from-file request is acknowledged with the
\* stored status running before the first step of its pipeline; an upload
\* request is answered only when its pipeline has ended (preparation done,
\* then a failed preparation, a precheck abort or the analyzer's result
\* stored as the shot), so its caller waits for it.
C7_Acknowledgment ==
    /\ AckedBeforePipeline
    /\ AckUpload =>
          /\ upload.pc = "idle"
          /\ resp.ran # <<>> /\ resp.ran[1] = "prepare"
          /\ \/ resp.ran[Len(resp.ran)] = "analyze"
             \/ resp.errorCode \in {Some("DECODE_FAILED"), Some("NOT_SWING")}
          /\ \E e \in UploadExts :
                shots[e] # Null /\ Some(shots[e][1].status) = resp.status
                /\ shots[e][1].errorCode = resp.errorCode

\* a from-file request has been acknowledged while an upload request is
\* still waiting for its analyzer
C7_Witness == AckFromFile /\ upload.pc = "analyze"

\* C8: a poll changes neither the job store nor the in-flight set and
\* schedules nothing; a poll of a done job answers done with the stored
\* events, metrics and summary, and the record of a done job changes only
\* when a submission for its identifier is accepted.
C8_PollIsReadOnly ==
    [][/\ resp'.kind = "poll" =>
            /\ Orchestrator' = Orchestrator
            /\ StatusOf(store, resp'.jobId) = "done" =>
                  /\ resp'.code = 200 /\ resp'.status = "done"
                  /\ resp'.events = Job(resp'.jobId).result[1].events
                  /\ resp'.metrics = Job(resp'.jobId).result[1].metrics
                  /\ resp'.summary = Job(resp'.jobId).result[1].summary
       /\ \A j \in JobIds :
            (StatusOf(store, j) = "done" /\ store'[j] # store[j]) =>
                (resp'.kind = "submit" /\ resp'.accepted /\ resp'.jobId = j)]_vars

\* a done job has been polled while the other identifier's pipeline runs
C8_Witness ==
    /\ resp.kind = "poll" /\ resp.code = 200 /\ resp.status = "done"
    /\ resp.events.impactMs # Null
    /\ \E j \in JobIds : awaiting[j] = 1

\* what the submitting call is said to reject
HasSeparator(body) ==
    LET id == DerivedJobId(body.jobId, body.filename) IN id # Null /\ id[1].sep

UnsupportedExtension(body) ==
    LET id == DerivedJobId(body.jobId, body.filename) IN
    id # Null /\ ~isSupportedVideoExt(TargetFilename(id[1], body.filename))

SourceMissing(body) ==
    LET id == DerivedJobId(body.jobId, body.filename) IN
    id # Null /\ ~UploadExists(TargetFilename(id[1], body.filename))

\* the requests of the first two kinds
InvalidBodies == {b \in Bodies : HasSeparator(b) \/ UnsupportedExtension(b)}

Rejected == resp'.kind = "submit" /\ resp'.code = 400 /\ Orchestrator' = Orchestrator

\* C9 as stated: a separator in the identifier, an unsupported extension
\* or a missing source file is rejected inside the submitting call, and
\* then no record is created or modified and nothing is scheduled.
C9_Original ==
    [][\A body \in Bodies, force \in BOOLEAN :
         (/\ AnalyzeFromFile(body.jobId, body.filename, force, TRUE, TRUE)
          /\ HasSeparator(body) \/ UnsupportedExtension(body) \/ SourceMissing(body))
         => Rejected]_vars

\* C9 amended: a separator in the identifier or an unsupported extension
\* is rejected inside the submitting call without touching the store or
\* the schedule.  A missing source file is not looked at by the submitting
\* call: the pipeline finds it at its first step and ends the job as
\* failed with "Video file not found".
C9_InputErrors ==
    [][/\ \A body \in InvalidBodies, force \in BOOLEAN :
            (/\ resp'.kind = "submit"
             /\ AnalyzeFromFile(body.jobId, body.filename, force, TRUE, TRUE))
            => Rejected
       /\ (/\ immediates # <<>> /\ immediates' = Tail(immediates)
           /\ store[Head(immediates)] # Null
           /\ Head(immediates) \notin activeAnalysisJobs
           /\ ~UploadExists(store[Head(immediates)][1].filename))
          => (/\ StatusOf(store', Head(immediates)) = "failed"
              /\ store'[Head(immediates)][1].errorMessage = Some("Video file not found")
              /\ awaiting' = awaiting
              /\ activeAnalysisJobs' = activeAnalysisJobs)]_vars

\* a request with an unsupported extension has been rejected while a job
\* whose source file is missing has failed
C9_Witness ==
    /\ resp.kind = "submit" /\ resp.code = 400
    /\ resp.message = "Only .mp4/.mov is supported"
    /\ \E j \in Records : Job(j).errorMessage = Some("Video file not found")

\* C10 as stated: every exception raised while the pipeline runs is caught
\* inside it: the job ends failed with the exception's message, the
\* identifier leaves the in-flight set and no error escapes the task.
C10_ExceptionsCaught ==
    [][/\ \A w1 \in BOOLEAN, w2 \in BOOLEAN, cOk \in BOOLEAN :
            (/\ RunMetaAnalysisJobStart(w1, w2, cOk)
             /\ store[Head(immediates)] # Null
             /\ Head(immediates) \notin activeAnalysisJobs
             /\ ~w1 \/ (~w2 /\ ~UploadExists(store[Head(immediates)][1].filename)))
            => (/\ StatusOf(store', Head(immediates)) = "failed"
                /\ store'[Head(immediates)][1].errorMessage = Some(WriteError)
                /\ Head(immediates) \notin activeAnalysisJobs'
                /\ escaped' = escaped)
       /\ \A j \in JobIds, meta \in MetaKinds, wOk \in BOOLEAN, cOk \in BOOLEAN :
            (/\ RunMetaAnalysisJobResume(j, meta, wOk, cOk)
             /\ meta = "throws" \/ ~wOk)
            => (/\ StatusOf(store', j) = "failed"
                /\ store'[j][1].errorMessage =
                      Some(IF meta = "throws" THEN AnalysisError ELSE WriteError)
                /\ j \notin activeAnalysisJobs'
                /\ escaped' = escaped)]_vars

\* the pipeline of jobId ends on a payload without frames ("noframes") or
\* on frames in which neither ball nor clubhead was detected ("still")
EndsWithoutData(jobId, meta) ==
    /\ meta \in {"noframes", "still"}
    /\ store[jobId] # Null
    /\ RunMetaAnalysisJobResume(jobId, meta, TRUE, TRUE)

\* C11 as stated: when the normalizer produces no frames, or the frames
\* produce no usable ball or club track, the job ends failed with a result
\* whose metric fields are all null: no tempo, and neither the default
\* swing plane nor the default impact stability in their place.
C11_Original ==
    [][\A jobId \in JobIds, meta \in MetaKinds :
          EndsWithoutData(jobId, meta)
          => LET job == store'[jobId][1] IN
             /\ job.status = "failed"
             /\ job.result[1].metrics.tempo = EMPTY_METRICS.tempo
             /\ job.result[1].metrics.swingPlane.label # "neutral"
             /\ job.result[1].metrics.impactStability.label # "unstable"]_vars

\* C11 amended: a payload without frames ends the job failed, with the
\* message 'No frame data in meta', all four events null and a null tempo,
\* but with the default swing plane (neutral, confidence 0) and impact
\* stability (unstable, score 0) in the result; frames without any
\* detection end the job done, without error message, with topMs and
\* impactMs null, addressMs and finishMs the first and last timestamps,
\* and the same null tempo and default swing plane and stability.
C11_NoDataResult ==
    [][\A jobId \in JobIds, meta \in MetaKinds :
          EndsWithoutData(jobId, meta)
          => LET job == store'[jobId][1]
                 result == job.result[1]
             IN
             /\ result.metrics.tempo =
                   [backswingMs |-> Null, downswingMs |-> Null, ratio |-> Null]
             /\ result.metrics.swingPlane = [label |-> "neutral", confidence |-> 0]
             /\ result.metrics.impactStability = [label |-> "unstable", score |-> 0]
             /\ result.events.topMs = Null /\ result.events.impactMs = Null
             /\ IF meta = "noframes"
                THEN /\ job.status = "failed"
                     /\ job.errorMessage = Some("No frame data in meta")
                     /\ result.events.addressMs = Null /\ result.events.finishMs = Null
                     /\ result.summary = Text("No frame data available.")
                ELSE /\ job.status = "done"
                     /\ job.errorMessage = Null
                     /\ result.events.addressMs = Some(FramesOf(meta)[1].t)
                     /\ result.events.finishMs = Some(FramesOf(meta)[Len(FramesOf(meta))].t)]_vars

\* one job has failed for want of frames and another is done without any
\* detection
C11_Witness ==
    \E failed \in JobIds, done \in JobIds :
        /\ store[failed] # Null /\ store[done] # Null
        /\ store[failed][1].status = "failed"
        /\ store[failed][1].errorMessage = Some("No frame data in meta")
        /\ store[done][1].status = "done"
        /\ store[done][1].result[1].events.impactMs = Null

\* the payload has been analysed and neither track has two points
ShortTracks ==
    /\ report # Null
    /\ Len(buildTrack(clip, "ball")) < 2
    /\ Len(buildTrack(clip, "club")) < 2

\* C18 as stated: when both the ball track and the club track have fewer
\* than 2 points, detectEvents returns addressMs, topMs, impactMs and
\* finishMs all null, and calculateMetrics returns swingPlane neutral with
\* confidence 0 and impactStability unstable with score 0.
C18_Original ==
    ShortTracks =>
        /\ report[1].events = EMPTY_EVENTS
        /\ report[1].metrics.swingPlane = [label |-> "neutral", confidence |-> 0]
        /\ report[1].metrics.impactStability = [label |-> "unstable", score |-> 0]

\* C18 amended: when both tracks have fewer than 2 points, detectEvents
\* returns impactMs null with impact source 'none'; addressMs and finishMs
\* are the timestamps of the first and of the last frame (null only when
\* there is no frame), and topMs is the timestamp of the single club point
\* when there is one (null otherwise); calculateMetrics returns a null
\* tempo, swingPlane neutral with confidence 0 and impactStability
\* unstable with score 0.
C18_ShortTracks ==
    ShortTracks =>
        LET clubTrack == buildTrack(clip, "club") IN
        /\ report[1].events.impactMs = Null
        /\ report[1].signals = [hasBall |-> FALSE, hasClub |-> FALSE, impactSource |-> "none"]
        /\ report[1].events.addressMs = (IF clip = <<>> THEN Null ELSE Some(clip[1].t))
        /\ report[1].events.finishMs = (IF clip = <<>> THEN Null ELSE Some(clip[Len(clip)].t))
        /\ report[1].events.topMs = (IF clubTrack = <<>> THEN Null ELSE Some(clubTrack[1].t))
        /\ report[1].metrics.tempo = [backswingMs |-> Null, downswingMs |-> Null, ratio |-> Null]
        /\ report[1].metrics.swingPlane = [label |-> "neutral", confidence |-> 0]
        /\ report[1].metrics.impactStability = [label |-> "unstable", score |-> 0]

\* three frames, one of them with the clubhead and one with the ball, have
\* been analysed
C18_Witness ==
    /\ ShortTracks
    /\ Len(clip) = MaxFrames
    /\ Len(buildTrack(clip, "club")) = 1
    /\ Len(buildTrack(clip, "ball")) = 1
    /\ report[1].events.topMs # Null

\* the squared displacement and the time between point i of a track and
\* the point before it
Displacement2(track, i) ==
    Sq(track[i].x - track[i - 1].x) + Sq(track[i].y - track[i - 1].y)

Elapsed(track, i) == track[i].t - track[i - 1].t

\* the points of a track whose displacement or speed relative to the
\* previous point reaches the thresholds
Reaching(track, distanceThreshold, speedThreshold) ==
    {i \in 2..Len(track) :
        \/ Displacement2(track, i) >= Sq(distanceThreshold)
        \/ /\ Elapsed(track, i) > 0
           /\ SpeedReaches(Displacement2(track, i), Elapsed(track, i), speedThreshold)}

Earliest(indices) == CHOOSE i \in indices : \A j \in indices : i <= j

ReachingLater(track, distanceThreshold, speedThreshold) ==
    {i \in Reaching(track, distanceThreshold, speedThreshold) : Elapsed(track, i) > 0}

Scaled(frames, k) ==
    [i \in 1..Len(frames) |->
        Frame(frames[i].t,
              IF frames[i].club = Null THEN Null
              ELSE Centre(k * frames[i].club[1].x, k * frames[i].club[1].y),
              IF frames[i].ball = Null THEN Null
              ELSE Centre(k * frames[i].ball[1].x, k * frames[i].ball[1].y))]

\* C19: for a club track in normalized coordinates and the same track
\* with every coordinate multiplied by 1000, with the same timestamps and
\* the same impact, calculateMetrics yields the same swingPlane.label and
\* the same impactStability.label.
C19_ScaleInvariance ==
    report # Null =>
        LET pixels == calculateMetrics(Scaled(clip, 1000), report[1].events,
                                       report[1].signals).metrics
        IN
        /\ pixels.swingPlane.label = report[1].metrics.swingPlane.label
        /\ pixels.impactStability.label = report[1].metrics.impactStability.label

\* an upload analysis request is answered by this step
Answered == resp'.kind = "upload"

Invoked(step) == \E i \in DOMAIN resp'.ran : resp'.ran[i] = step

\* this step is the precheck settling with a definitive negative
DefinitiveNegative ==
    \E precheckResult \in PrecheckResults :
        /\ precheckResult.ok /\ ~precheckResult.isSwing
        /\ UploadPrechecked(precheckResult)

StoredNotSwing ==
    /\ resp'.status = Some("failed") /\ resp'.errorCode = Some("NOT_SWING")
    /\ shots'[upload.ext] = Some(Shot("failed", Some("NOT_SWING")))

\* the analyzer has settled and its result is what is stored and answered
StoredAnalysis ==
    /\ Invoked("analyze")
    /\ resp'.errorCode # Some("NOT_SWING")
    /\ shots'[upload.ext] # Null
    /\ Some(shots'[upload.ext][1].status) = resp'.status

\* C12 as stated: in the upload analysis pipeline the analyzer is invoked
\* unless the precheck ran and returned a definitive negative (ok and not
\* isSwing); then the analyzer is never invoked and the shot is stored as
\* failed with NOT_SWING.  With force the precheck is never invoked and
\* the analyzer always is.
C12_Original ==
    [][Answered =>
          /\ IF DefinitiveNegative
             THEN ~Invoked("analyze") /\ StoredNotSwing
             ELSE StoredAnalysis
          /\ upload.force => ~Invoked("precheck") /\ StoredAnalysis]_vars

\* C12 amended: once prepareVideoForAnalysis has returned a usable file,
\* the analyzer is invoked unless the precheck ran and returned a
\* definitive negative, in which case the analyzer is never invoked and
\* the shot is stored as failed with NOT_SWING; with force the precheck is
\* never invoked and, after a successful preparation, the analyzer always
\* is.  When the preparation fails (DECODE_FAILED) or throws (500) the
\* request is answered without precheck and without analyzer, with or
\* without force.
C12_PrecheckGate ==
    [][Answered =>
          /\ IF upload.prepared = Null
             THEN /\ ~Invoked("precheck") /\ ~Invoked("analyze")
                  /\ resp'.code = 500 \/ resp'.errorCode = Some("DECODE_FAILED")
             ELSE IF DefinitiveNegative
             THEN ~Invoked("analyze") /\ StoredNotSwing
             ELSE StoredAnalysis
          /\ upload.force => ~Invoked("precheck")]_vars

\* the clip stored as NOT_SWING has been submitted again with force and
\* the analyzer is at work on it
C12_Witness ==
    /\ shots[".mp4"] = Some(Shot("failed", Some("NOT_SWING")))
    /\ upload.pc = "analyze" /\ upload.ext = ".mp4" /\ upload.force
    /\ proc # Null /\ proc[1].purpose = "analysis"

\* C13: whenever the external analysis delegate fails (it cannot be
\* started, exits with a non-zero code, prints invalid JSON),
\* analyzeFrameSequence completes with the stub result: the failure does
\* not terminate the process, and the pipeline goes on with the stub,
\* stores the shot and answers the request.
C13_StubOnFailure ==
    [][\A how \in {"spawn", "exit", "json"} :
          WorkerFails(how) =>
             /\ ~crashed'
             /\ UploadAnalyzed(StubResult)
             /\ Answered /\ resp'.code = 200]_vars

\* C14: when the Python worker fails, the fallback result carries an
\* errorMessage, so that the upload pipeline classifies the analysis as a
\* failure: the shot is stored and answered as failed.
C14_FallbackIsFailure ==
    [][\A how \in {"exit", "json"} :
          WorkerFails(how) =>
             /\ StubResult.errorMessage # Null
             /\ looksLikeAnalysisFailure(StubResult)
             /\ resp'.status = Some("failed")
             /\ shots'[upload.ext][1].status = "failed"]_vars

\* the preparation fails in this step and the request is answered
PreparationFails == upload.pc = "prepare" /\ Answered /\ resp'.code = 200

Tagged == resp'.errorCode = Some("DECODE_FAILED")

StoredFailed ==
    /\ resp'.status = Some("failed")
    /\ shots'[upload.ext] = Some(Shot("failed", resp'.errorCode))

\* C15 as stated: an upload failure is tagged DECODE_FAILED when the error
\* text of the failing preparation or analysis step matches a decode
\* indicator, and is a failure without that tag when the text matches
\* none (a tool that timed out, for one).
C15_Original ==
    [][/\ PreparationFails =>
             /\ StoredFailed
             /\ Tagged <=> isDecodeErrorMessage(prep'.error)
       /\ \A analysis \in WorkerResults :
             (analysis.errorMessage # Null /\ WorkerAnswers(analysis)) =>
                /\ StoredFailed
                /\ Tagged <=> isDecodeErrorMessage(analysis.errorMessage)]_vars

\* C15 amended: a failed preparation is stored as failed and tagged
\* DECODE_FAILED whatever its error text ('ffmpeg timeout' included); an
\* analysis that carries an errorMessage is stored as failed, tagged
\* DECODE_FAILED when the text matches a decode indicator ('Cannot open
\* video') and without error code when it matches none.
C15_DecodeTag ==
    [][/\ PreparationFails =>
             /\ StoredFailed
             /\ Tagged
             /\ prep'.error # Null
       /\ \A analysis \in WorkerResults :
             (analysis.errorMessage # Null /\ WorkerAnswers(analysis)) =>
                /\ StoredFailed
                /\ Tagged <=> isDecodeErrorMessage(analysis.errorMessage)
                /\ analysis.errorMessage = Some(<<"Cannot", "open", "video">>) => Tagged
                /\ ~Tagged => resp'.errorCode = Null]_vars

\* a transcode that timed out has been answered as DECODE_FAILED
C15_Witness ==
    /\ resp.kind = "upload" /\ resp.ran = <<"prepare">>
    /\ resp.errorCode = Some("DECODE_FAILED")
    /\ prep.error = Some(<<"ffmpeg", "timeout">>)
    /\ ~isDecodeErrorMessage(prep.error)

\* C16: every external tool invocation made for video preparation or
\* analysis (availability check, codec and metadata probe, repackage,
\* transcode, analysis worker) is bounded by a timeout: while the tool
\* runs, a timer is armed that kills it and fails the invocation, so that
\* no invocation keeps its caller waiting forever.
C16_EveryToolTimed ==
    proc # Null => proc[1].timer

\* prepareVideoForAnalysis is at work on a .mov whose prepared file
\* existed when it began
CachedBefore == upload.pc = "prepare" /\ upload.ext = ".mov" /\ prep.found

\* it ends in this step
PrepareEnds == upload'.pc # "prepare"

Without(frames, kind) ==
    [i \in DOMAIN frames |-> [frames[i] EXCEPT ![kind] = Null]]

\* C21: the thresholds used to search a track for impact are scaled by the
\* domain inferred from that track's own points: the search of the ball
\* track finds what it finds without the club detections, and, when the
\* ball track yields no impact, the search of the club track finds what
\* it finds without the ball detections.
C21_PerTrackDomain ==
    report # Null =>
        LET ballAlone == detectEvents(Without(clip, "club"))
            clubAlone == detectEvents(Without(clip, "ball"))
            events == report[1].events
            signals == report[1].signals
        IN
        IF ballAlone.signals.impactSource = "ball"
        THEN /\ signals.impactSource = "ball"
             /\ events.impactMs = ballAlone.events.impactMs
        ELSE /\ signals.impactSource = clubAlone.signals.impactSource
             /\ events.impactMs = clubAlone.events.impactMs

\* the club points at or before the reported impact (all of them when the
\* impact is unresolved)
Eligible(track, impactMs) ==
    {i \in DOMAIN track : impactMs = Null \/ track[i].t <= impactMs[1]}

\* C22: topMs is the timestamp of the first club-track point that has the
\* minimum y among the club points with timestamp at or before the impact
\* timestamp (among all club points when impact is unresolved), and is
\* null when there is no such point; so topMs <= impactMs whenever both
\* are non-null, and for club timestamps 0, 800, 1200, 1600 with minimum y
\* at 800 and impact at 1200 the result is topMs = 800.
C22_TopOfBackswing ==
    /\ report # Null =>
          LET clubTrack == buildTrack(clip, "club")
              events == report[1].events
              eligible == Eligible(clubTrack, events.impactMs)
              lowest == {i \in eligible : \A j \in eligible : clubTrack[i].y <= clubTrack[j].y}
          IN
          /\ IF eligible = {} THEN events.topMs = Null
             ELSE events.topMs = Some(clubTrack[Earliest(lowest)].t)
          /\ (events.topMs # Null /\ events.impactMs # Null)
                => events.topMs[1] <= events.impactMs[1]
    /\ LET swing == detectEvents(FramesOf("swing")).events IN
       swing.impactMs = Some(1200) => swing.topMs = Some(800)

\* the impact has been found and a later club point lies higher in the
\* frame than the reported top, while two eligible points share the
\* least y
C22_Witness ==
    /\ report # Null
    /\ report[1].events.impactMs # Null /\ report[1].events.topMs # Null
    /\ LET clubTrack == buildTrack(clip, "club")
           eligible == Eligible(clubTrack, report[1].events.impactMs)
       IN
       /\ \E i \in DOMAIN clubTrack \ eligible :
             \A j \in eligible : clubTrack[i].y < clubTrack[j].y
       /\ \E i \in eligible, j \in eligible :
             i # j /\ clubTrack[i].y = clubTrack[j].y /\ clubTrack[i].t # clubTrack[j].t

\* ---------------------------------------------------------------------
\* C23 as stated: in every result of calculateMetrics the stability score
\* lies in [0, 1] and the label is 'stable' exactly when the reported
\* (two-decimal) score is at least 0.6.
C23_Original ==
    report # Null =>
        LET stability == report[1].metrics.impactStability IN
        /\ stability.score \in 0..100
        /\ stability.label = "stable" <=> stability.score >= 60

\* the window and the reference computeImpactStability works with
StabilityWindow ==
    Window(buildTrack(clip, "club"), report[1].events.impactMs, 200)

\* C23: the stability score lies in [0, 1]; the label is 'stable' exactly
\* when the score before rounding is at least 0.6, so a 'stable' result
\* reports a score of at least 0.6 and an 'unstable' one a score of at most
\* 0.6 (a score in [0.595, 0.6) is reported as 0.6 with the label
\* 'unstable').
C23_StabilityLabel ==
    report # Null =>
        LET stability == report[1].metrics.impactStability
            track == buildTrack(clip, "club")
        IN
        /\ stability.score \in 0..100
        /\ stability.label \in {"stable", "unstable"}
        /\ stability.label = "stable" => stability.score >= 60
        /\ stability.label = "unstable" => stability.score <= 60
        /\ Len(track) >= 2 =>
               (stability.label = "stable" <=>
                    ScoreAtLeast(Scatter(StabilityWindow), Len(StabilityWindow),
                                 IF inferNormalized(StabilityWindow) THEN 5 ELSE 1200,
                                 120))
        /\ Len(track) < 2 => stability = [label |-> "unstable", score |-> 0]

\* a result that reports a score of 0.6 with the label 'unstable'
C23_Witness ==
    /\ report # Null
    /\ report[1].metrics.impactStability = [label |-> "unstable", score |-> 60]

\* ---------------------------------------------------------------------
\* the frame index of the i-th entry of the payload: the one it names (null
\* counts as 0), else its position in the list
IndexOf(i) ==
    LET given == payload.frames[i].frame IN
    IF given.type = "number" THEN given.value
    ELSE IF given.type = "null" THEN 0
    ELSE i - 1

\* whether the i-th entry carries an explicit timestamp (a null converts to
\* the number 0)
Explicit(i) == payload.frames[i].t.type \in {"number", "null"}

\* the timestamp the i-th entry is to get, in thirds of a millisecond
Resolved(i) ==
    LET raw == payload.frames[i].t.value
        fps == payload.fps
    IN IF Explicit(i) THEN 3 * (IF raw < 1000 THEN raw * 1000 ELSE raw)
       ELSE IF fps.type = "number" /\ fps.value > 0
            THEN (3 * IndexOf(i) * 1000) \div fps.value
       ELSE IndexOf(i) * 100

C30_OrderPreserved ==
    parsed # Null =>
        \A i, j \in DOMAIN payload.frames :
            (/\ payload.frames[i].object /\ payload.frames[i].t.type = "number"
             /\ payload.frames[j].object /\ payload.frames[j].t.type = "number"
             /\ payload.frames[i].t.value <= payload.frames[j].t.value)
            => normalizeTimestamp(payload.frames[i].t, Some(IndexOf(i)), Some(parsed[1].fps))[1]
                   <= normalizeTimestamp(payload.frames[j].t, Some(IndexOf(j)), Some(parsed[1].fps))[1]

\* ---------------------------------------------------------------------
\* this step spawns the ffmpeg run `conversion`
Spawns(conversion) ==
    /\ prep'.ran = Append(prep.ran, conversion)
    /\ proc' # Null /\ proc'[1].purpose = conversion

\* the probed codec is h264, or the probe was inconclusive
RemuxFirst(codec) == codec = Some(Some("h264")) \/ codec = Some(Null)

\* among the runs logged, `conversion` occurs
Ran(log, conversion) == \E i \in DOMAIN log : log[i] = conversion

\* C25: for a .mov without cached output, with codec h264 or an
\* inconclusive probe the repackage is spawned first and a transcode is
\* spawned only in the step in which that repackage fails; with any other
\* codec the transcode is spawned at once, without a repackage; the
\* preparation reports failure only in the step in which the transcode
\* fails.
C25_RemuxBeforeTranscode ==
    [][/\ Spawns("remux") =>
             /\ RemuxFirst(prep'.codec)
             /\ ~Ran(prep.ran, "remux") /\ ~Ran(prep.ran, "transcode")
             /\ disk[prep.key] = "absent"
       /\ Spawns("transcode") =>
             /\ ~Ran(prep.ran, "transcode")
             /\ IF RemuxFirst(prep'.codec)
                THEN /\ proc # Null /\ proc[1].purpose = "remux"
                     /\ disk'[prep.key] # "whole"
                ELSE /\ ~Ran(prep.ran, "remux")
                     /\ proc # Null /\ proc[1].purpose = "codec"
                     /\ disk[prep.key] = "absent"
       /\ (proc # Null /\ proc[1].purpose = "codec" /\ prep'.pc # "codec") =>
             IF RemuxFirst(prep'.codec) THEN Spawns("remux") ELSE Spawns("transcode")
       /\ (upload.pc = "prepare" /\ shots'[upload.ext] # shots[upload.ext]) =>
             /\ proc # Null /\ proc[1].purpose = "transcode"
             /\ prep'.error # Null
             /\ disk'[prep.key] # "whole"]_vars

\* a preparation has failed after the repackage of an h264 clip and then its
\* transcode failed
C25_Witness ==
    /\ prep.codec = Some(Some("h264"))
    /\ prep.ran = <<"codec", "remux", "transcode">>
    /\ prep.pc = "rest" /\ prep.error # Null
    /\ shots[".mov"] # Null

C27_OthersUntouched ==
    [][\E a \in JobIds : \A other \in JobIds \ {a} : store'[other] = store[other]]_vars

\* ---------------------------------------------------------------------
\* this step ends an execution of the pipeline for jobId: the continuation
\* after the await, or a callback that runs the pipeline to its end at once
\* (a callback that finds no record, or the identifier in flight, returns
\* without executing the pipeline)
ExecutionEnds(jobId) ==
    \/ awaiting'[jobId] < awaiting[jobId]
    \/ /\ immediates # <<>> /\ Head(immediates) = jobId /\ immediates' = Tail(immediates)
       /\ store[jobId] # Null /\ jobId \notin activeAnalysisJobs
       /\ awaiting'[jobId] = awaiting[jobId]

\* C28: a job whose stored status is running has a pipeline execution
\* scheduled or in flight, and when an execution ends the status is done or
\* failed and the identifier is no longer in the in-flight set (so that
\* every accepted job reaches done or failed once its awaited calls have
\* settled).
C28_RunningIsServed ==
    [][\A jobId \in JobIds :
          /\ StatusOf(store', jobId) = "running" => InFlight(jobId)' >= 1
          /\ ExecutionEnds(jobId) =>
                /\ StatusOf(store', jobId) \in {"done", "failed"}
                /\ jobId \notin activeAnalysisJobs']_vars

\* ---------------------------------------------------------------------
\* a <= b for two event times, whenever both are non-null
Ordered(a, b) == a # Null /\ b # Null => a[1] <= b[1]

\* C29: the events returned by detectEvents for the frames of a payload
\* are ordered in time: whenever the values are non-null,
\* addressMs <= topMs <= impactMs <= finishMs.
C29_EventsOrdered ==
    report # Null =>
        LET events == report[1].events IN
        /\ Ordered(events.addressMs, events.topMs)
        /\ Ordered(events.topMs, events.impactMs)
        /\ Ordered(events.impactMs, events.finishMs)
        /\ Ordered(events.addressMs, events.impactMs)
        /\ Ordered(events.topMs, events.finishMs)
        /\ Ordered(events.addressMs, events.finishMs)

==============================================================================
